---- MODULE Spec2Model ----
(***************************************************************************)
(* Model of the state-machine execution engine of sm-workflow              *)
(* (src/src/state-machine/StateMachine.ts) and of its transition matching. *)
(*                                                                         *)
(* The engine is asynchronous JavaScript: code between two awaits runs     *)
(* atomically, and at every await another caller (a stop(), a second       *)
(* start(), another run loop) may run.  Each action below is one such      *)
(* atomic segment.  A state callback (enter / execute / exit) is opaque    *)
(* state code that may suspend: it is called in one action and settles     *)
(* (returns or throws) in a later one.                                     *)
(***************************************************************************)
EXTENDS Integers, Sequences, FiniteSets, TLC

\* ---------------------------------------------------------------- bounds
MaxCalls == 3       \* number of start() and stop() calls made on the machine
MaxExec == 2        \* number of execute calls the model follows
MaxLen == 3         \* longest transition list drawn for the matching check

\* ------------------------------------------------------------ vocabulary
Null == "null"
NoError == "none"
Raised == -1        \* findTransition: a guard raised during the scan
NoCall == [st |-> Null, occ |-> 0]
NoLog == [level |-> NoError, text |-> NoError]

\* Error messages, as the sequence of their parts; no error is << >>.
NoMessage == << >>
AlreadyRunning == << "State machine is already running" >>
InitialNotFound(name) == << "Initial state '", name, "' not found" >>
EnterFailed == << "enter failed" >>     \* raised by a state's enter
ExitFailed == << "exit failed" >>       \* raised by a state's exit

\* The calls made on the machine's public methods, each a start() or a
\* stop(), numbered in the order in which they are made.
Callers == 1..MaxCalls

Events == {"E1", "E2"}
GuardKinds == {"none", "flagOn", "flagOff", "raise"}

\* Transition.ts: a transition record; condition "none" is an absent guard.
Transition(e, s, g) == [eventType |-> e, targetState |-> s, condition |-> g]

\* The registry handed to the engine (config.states): its keys.  S1 and S2
\* are the two states of the transition test; no rule of A, B or C leads
\* to them and none of theirs leads back.
states == {"A", "B", "C", "S1", "S2"}

\* State.getTransitions() of each registered state, in declaration order.
\* A: a guarded and an unguarded rule on the same event (the earlier wins
\*    when its guard holds; the later is a self-transition) and a guarded
\*    rule whose target is not registered.  B: a rule whose guard raises and
\*    a guarded rule.  No rule complements the guarded rules on E2, so that
\*    event goes unmatched when the guard is false.  C: terminal.
\* S1: one unguarded rule to S2.  S2: terminal.
getTransitions(s) ==
    CASE s = "A" -> << Transition("E1", "B", "flagOn"),
                       Transition("E1", "A", "none"),
                       Transition("E2", "X", "flagOn") >>
      [] s = "B" -> << Transition("E1", "A", "raise"),
                       Transition("E2", "C", "flagOn") >>
      [] s = "S1" -> << Transition("E1", "S2", "none") >>
      [] s = "CHANGE_DETECTION" ->
            << Transition("VISUAL_CHANGE_DETECTED", "RECIPE_EXECUTION", "none"),
               Transition("NO_CHANGE_DETECTED", "TRIGGER_COMPLETE", "modeTrigger"),
               Transition("NO_CHANGE_DETECTED", "SCHEDULE_COMPLETE", "modeSchedule"),
               Transition("NO_CHANGE_DETECTED", "AUDIT_COMPLETE", "modeMonitor") >>
      [] s = "RECIPE_EXECUTION" ->
            << Transition("SCREENSHOTS_CAPTURED", "QUALITY_AUDIT", "none"),
               Transition("EXECUTION_FAILED", "MONITORING", "recipeGiveUp") >>
      [] s = "QUALITY_AUDIT" ->
            << Transition("QUALITY_CHECK_PASSED", "DISTRIBUTION", "none"),
               Transition("QUALITY_CHECK_FAILED", "RECIPE_EXECUTION", "qualityRetry"),
               Transition("QUALITY_CHECK_FAILED", "MONITORING", "qualityGiveUp") >>
      [] s = "DISTRIBUTION" ->
            << Transition("SYNC_SUCCESSFUL", "TRIGGER_COMPLETE", "modeTrigger"),
               Transition("SYNC_SUCCESSFUL", "SCHEDULE_COMPLETE", "modeSchedule"),
               Transition("SYNC_SUCCESSFUL", "AUDIT_COMPLETE", "modeMonitor"),
               Transition("SYNC_FAILED", "DISTRIBUTION", "distributionRetry"),
               Transition("SYNC_FAILED", "MONITORING", "distributionGiveUp") >>
      [] s = "MONITORING" ->
            << Transition("SCHEDULE_REACHED", "CHANGE_DETECTION", "none"),
               Transition("MANUAL_TRIGGER", "CHANGE_DETECTION", "none") >>
      [] s = "AUDIT_COMPLETE" ->
            << Transition("CYCLE_COMPLETE", "MONITORING", "none") >>
      [] OTHER   -> << >>

\* ------------------------------------------------------ workflow stages
\* WorkflowMode.ts: the values of context.data.workflowMode.
WorkflowModes == {"monitor", "trigger", "schedule"}

\* The stages of the screenshot workflow whose transitions are guarded, and
\* those among them that keep a private retry counter.
Stages == {"CHANGE_DETECTION", "RECIPE_EXECUTION", "QUALITY_AUDIT",
           "DISTRIBUTION"}
RetryStages == {"RECIPE_EXECUTION", "QUALITY_AUDIT", "DISTRIBUTION"}

\* The private readonly maxRetries of each stage that retries.
maxRetries(s) ==
    CASE s = "RECIPE_EXECUTION" -> 2
      [] s = "QUALITY_AUDIT"    -> 1
      [] s = "DISTRIBUTION"     -> 2

\* The initial-state names a configuration may carry ("X" is not registered).
InitialStates == {"A", "B", "C", "X"}

\* ----------------------------------------------------------------- state
VARIABLES
    initialState,   \* config.initialState
    isRunning,      \* StateMachine.isRunning
    currentState,   \* StateMachine.currentState (a registry key or Null)
    data,           \* context.data, reduced to the one flag that is read
                    \* (in the workflow: isInitialRun)
    logger,         \* the last call made on context.logger
    pc,             \* per call: where the start() or stop() stands
    cb,             \* per call: the state callback it called last (state and
                    \* occupancy); NoCall if none, and once a start() is over
    event,          \* per call: how the last execute of that start() settled
    target,         \* per call: executeTransition's local targetState
    error,          \* per caller: the error its call rejected with
    life,           \* history: the callbacks of the current occupancy
    nExec,          \* history: execute calls made so far
    mTransitions,   \* matching check: the transition list
    mEvent,         \* matching check: the event type
    mData,          \* matching check: the shared data
    mResult,        \* matching check: what findTransition produced
    workflowMode,   \* stages: context.data.workflowMode
    retryCount,     \* stages: the private retryCount of each retrying stage
    matched,        \* stages: a matching the engine made, kept for replay
    replayed,       \* stages: what replaying the kept matching selected
    mode,           \* workflow: the mode the machine was built for
    cycles,         \* history: entries into CHANGE_DETECTION (saturating)
    failures,       \* history: per retrying stage, the failure events it
                    \* returned in this cycle since its last success
    scheduler,      \* Scheduler: isRunning, and the keys of tasks and intervals
    emitted,        \* history: the types of the events the scheduler emitted
    called,         \* history: the last call made on the scheduler
    triggerType,    \* context.data.triggerType
    cycleStartTime, \* context.data.cycleStartTime: a Date, or anything else
    initialCycle    \* history: a CHANGE_DETECTION execute of this cycle found
                    \* no baselines

matchVars == << mTransitions, mEvent, mData, mResult >>
stageVars == << workflowMode, retryCount, matched, replayed >>
flowVars == << mode, cycles, failures >>
schedulerVars == << scheduler, emitted, called >>
contextVars == << triggerType, cycleStartTime, initialCycle >>
vars == << initialState, isRunning, currentState, data, logger, pc, cb,
           event, target, error, life, nExec,
           mTransitions, mEvent, mData, mResult,
           workflowMode, retryCount, matched, replayed, mode, cycles,
           failures, scheduler, emitted, called, triggerType,
           cycleStartTime, initialCycle >>

\* ------------------------------------------------------------ Scheduler
\* A Scheduler after construction: both maps empty, not running.
NewScheduler == [isRunning |-> FALSE, tasks |-> {}, intervals |-> {}]

\* A call that returned.
NoThrow == << >>

AlreadyRunningScheduler == << "Scheduler is already running" >>
SchedulerNotRunning == << "Scheduler is not running" >>
InvalidCron == << "Invalid cron expression: ", "cronExpression" >>
MinimumInterval == << "Minimum interval is 1 minute" >>
ScheduleRaised == << "cron.schedule raised" >>

\* What a call on the scheduler s did: the scheduler it leaves, the types
\* of the events it emitted in order, and the message it threw with.
SchedulerResult(s, ev, th) == [scheduler |-> s, events |-> ev, threw |-> th]

\* Before any call.
NotCalled == [op |-> "none", before |-> NewScheduler, emitted |-> << >>,
              threw |-> NoThrow]

\* The ways a cron expression is taken: absent; accepted by cron.validate
\* and scheduled; rejected by cron.validate; accepted by cron.validate but
\* refused by cron.schedule (its options).
CronExpressions == {"none", "valid", "invalid", "unschedulable"}

validateCronExpression(x) == x \in {"valid", "unschedulable"}

setupCronSchedule(s, config) ==
    IF ~validateCronExpression(config.cronExpression)
    THEN SchedulerResult(s, << >>, InvalidCron)
    ELSE IF config.cronExpression = "unschedulable"
    THEN SchedulerResult(s, << "error" >>, ScheduleRaised)
    ELSE SchedulerResult([s EXCEPT !.tasks = @ \cup {"main"}], << >>, NoThrow)

setupIntervalSchedule(s, config) ==
    IF config.interval * 60 * 1000 < 60000
    THEN SchedulerResult(s, << >>, MinimumInterval)
    ELSE SchedulerResult([s EXCEPT !.intervals = @ \cup {"main"}], << >>,
                         NoThrow)

\* startScheduledMonitoring without its test of the flag.
startScheduledMonitoringUnchecked(s, config) ==
    LET s1 == [s EXCEPT !.isRunning = TRUE]
        ev == IF config.runOnStart THEN << "manual" >> ELSE << >>
        r  == IF config.cronExpression # "none"
              THEN setupCronSchedule(s1, config)
              ELSE setupIntervalSchedule(s1, config)
    IN  SchedulerResult(r.scheduler, ev \o r.events, r.threw)

startScheduledMonitoring(s, config) ==
    IF s.isRunning
    THEN SchedulerResult(s, << >>, AlreadyRunningScheduler)
    ELSE LET s1 == [s EXCEPT !.isRunning = TRUE]
             ev == IF config.runOnStart THEN << "manual" >> ELSE << >>
             r  == IF config.cronExpression # "none"
                   THEN setupCronSchedule(s1, config)
                   ELSE setupIntervalSchedule(s1, config)
         IN  SchedulerResult(r.scheduler, ev \o r.events, r.threw)

stopScheduledMonitoring(s) ==
    IF ~s.isRunning
    THEN SchedulerResult(s, << >>, NoThrow)
    ELSE SchedulerResult(NewScheduler, << "scheduler-stopped" >>, NoThrow)

triggerManualRun(s) ==
    IF ~s.isRunning
    THEN SchedulerResult(s, << >>, SchedulerNotRunning)
    ELSE SchedulerResult(s, << "manual" >>, NoThrow)

\* The handlers MonitoringState.enter registers: triggerType after the
\* events ev, in order, starting from tt.
RECURSIVE Handled(_, _)
Handled(tt, ev) ==
    IF ev = << >> THEN tt
    ELSE Handled(IF Head(ev) \in {"scheduled", "manual"} THEN Head(ev) ELSE tt,
                 Tail(ev))

\* ------------------------------------------------ transition matching
\* The counter as one field shared by all stages instead of one per stage.
sharedRetryCount(s) == retryCount["RECIPE_EXECUTION"]

\* this.retryCount as read by a guard closure of stage s.
thisRetryCount(s) == retryCount[s]

Truth(b) == IF b THEN "true" ELSE "false"

\* The monitor guard written as "any mode but trigger".
conditionMonitorByDefault(g, e, d) ==
    CASE g = "flagOn"  -> IF d THEN "true" ELSE "false"
      [] g = "flagOff" -> IF d THEN "false" ELSE "true"
      [] g = "raise"   -> "raise"
      [] g = "modeTrigger"  -> Truth(d.workflowMode = "trigger")
      [] g = "modeSchedule" -> Truth(d.workflowMode = "schedule")
      [] g = "modeMonitor"  -> Truth(d.workflowMode # "trigger")
      [] g = "recipeGiveUp" ->
            Truth(thisRetryCount("RECIPE_EXECUTION") >= maxRetries("RECIPE_EXECUTION"))
      [] g = "qualityRetry" ->
            Truth(thisRetryCount("QUALITY_AUDIT") < maxRetries("QUALITY_AUDIT"))
      [] g = "qualityGiveUp" ->
            Truth(thisRetryCount("QUALITY_AUDIT") >= maxRetries("QUALITY_AUDIT"))
      [] g = "distributionRetry" ->
            Truth(thisRetryCount("DISTRIBUTION") < maxRetries("DISTRIBUTION"))
      [] g = "distributionGiveUp" ->
            Truth(thisRetryCount("DISTRIBUTION") >= maxRetries("DISTRIBUTION"))
      [] OTHER         -> "true"

\* The schedule guard written as "neither monitor nor trigger".
conditionScheduleByElimination(g, e, d) ==
    CASE g = "flagOn"  -> IF d THEN "true" ELSE "false"
      [] g = "flagOff" -> IF d THEN "false" ELSE "true"
      [] g = "raise"   -> "raise"
      [] g = "modeTrigger"  -> Truth(d.workflowMode = "trigger")
      [] g = "modeSchedule" -> Truth(d.workflowMode \notin {"monitor", "trigger"})
      [] g = "modeMonitor"  -> Truth(d.workflowMode = "monitor")
      [] g = "recipeGiveUp" ->
            Truth(thisRetryCount("RECIPE_EXECUTION") >= maxRetries("RECIPE_EXECUTION"))
      [] g = "qualityRetry" ->
            Truth(thisRetryCount("QUALITY_AUDIT") < maxRetries("QUALITY_AUDIT"))
      [] g = "qualityGiveUp" ->
            Truth(thisRetryCount("QUALITY_AUDIT") >= maxRetries("QUALITY_AUDIT"))
      [] g = "distributionRetry" ->
            Truth(thisRetryCount("DISTRIBUTION") < maxRetries("DISTRIBUTION"))
      [] g = "distributionGiveUp" ->
            Truth(thisRetryCount("DISTRIBUTION") >= maxRetries("DISTRIBUTION"))
      [] OTHER         -> "true"

\* A guard applied to (event, context.data): "true", "false" or "raise".
\* The mode guards of the stages read contextData.workflowMode; their retry
\* guards read the stage's own counter and ignore both arguments.
condition(g, e, d) ==
    CASE g = "flagOn"  -> IF d THEN "true" ELSE "false"
      [] g = "flagOff" -> IF d THEN "false" ELSE "true"
      [] g = "raise"   -> "raise"
      [] g = "modeTrigger"  -> Truth(d.workflowMode = "trigger")
      [] g = "modeSchedule" -> Truth(d.workflowMode = "schedule")
      [] g = "modeMonitor"  -> Truth(d.workflowMode = "monitor")
      [] g = "recipeGiveUp" ->
            Truth(thisRetryCount("RECIPE_EXECUTION") >= maxRetries("RECIPE_EXECUTION"))
      [] g = "qualityRetry" ->
            Truth(thisRetryCount("QUALITY_AUDIT") < maxRetries("QUALITY_AUDIT"))
      [] g = "qualityGiveUp" ->
            Truth(thisRetryCount("QUALITY_AUDIT") >= maxRetries("QUALITY_AUDIT"))
      [] g = "distributionRetry" ->
            Truth(thisRetryCount("DISTRIBUTION") < maxRetries("DISTRIBUTION"))
      [] g = "distributionGiveUp" ->
            Truth(thisRetryCount("DISTRIBUTION") >= maxRetries("DISTRIBUTION"))
      [] OTHER         -> "true"

\* The callback without its guard test: the event type alone decides.
matchesEventTypeOnly(tr, e, d) ==
    IF tr.eventType # e THEN "false" ELSE "true"

\* The callback handed to Array.find in findTransition (lines 110-120).
matches(tr, e, d) ==
    IF tr.eventType # e THEN "false"
    ELSE IF tr.condition # "none" THEN condition(tr.condition, e, d)
    ELSE "true"

\* Array.find from index i on: the index of the first element the callback
\* accepts, 0 when there is none, Raised when the callback raised first.
RECURSIVE find(_, _, _, _)
find(trs, e, d, i) ==
    IF i > Len(trs) THEN 0
    ELSE LET m == matches(trs[i], e, d)
         IN  IF m = "raise" THEN Raised
             ELSE IF m = "true" THEN i
             ELSE find(trs, e, d, i + 1)

\* StateMachine.findTransition over a transition list.
findTransition(trs, e, d) == find(trs, e, d, 1)

\* The target of the transition findTransition selects, Null when none.
selected(trs, e, d) ==
    LET i == findTransition(trs, e, d)
    IN  IF i > 0 THEN trs[i].targetState ELSE Null

\* No matching kept, no replay made.
NoMatching == [stage |-> Null, event |-> Null, result |-> Null, count |-> 0]
NotReplayed == [result |-> "pending", count |-> 0]

\* ---------------------------------------------------------------- helpers
Log(level, text) == [level |-> level, text |-> text]

\* An occupancy is one period during which a state is current: it begins
\* with an assignment to currentState.  The history of occupancy number o
\* of state s counts the callbacks called on it, the enter calls on it that
\* have returned, and the execute calls on it that raised in a row.
Occupancy(o, s) ==
    [occ |-> o, st |-> s, enterCalls |-> 0, enterReturns |-> 0,
     executeCalls |-> 0, exitCalls |-> 0, failures |-> 0]

Called(lf, op) ==
    CASE op = "enter"   -> [lf EXCEPT !.enterCalls = @ + 1]
      [] op = "execute" -> [lf EXCEPT !.executeCalls = @ + 1]
      [] op = "exit"    -> [lf EXCEPT !.exitCalls = @ + 1]

\* The enter awaited by caller c returned.
EnterReturned(lf, c) ==
    IF cb[c].occ = lf.occ THEN [lf EXCEPT !.enterReturns = @ + 1] ELSE lf

\* The execute awaited by caller c settled, raising or not.
ExecuteSettled(lf, c, raised) ==
    IF cb[c].occ # lf.occ THEN lf
    ELSE IF raised THEN [lf EXCEPT !.failures = @ + 1]
    ELSE [lf EXCEPT !.failures = 0]

Call(s) == [st |-> s, occ |-> life.occ]

\* Call number c is made now: the earlier ones have been made.
Calls(c) ==
    /\ pc[c] = "idle"
    /\ \A b \in Callers : b < c => pc[b] # "idle"

\* The head of the while loop of runStateMachine (lines 71-73), run by
\* start() call t once isRunning' and currentState' are fixed, lf being the
\* history so far: either the next execute is called, or the loop and with
\* it start() returns.  The iteration's local event is gone either way.
loopHead(t, lf) ==
    IF isRunning' /\ currentState' # Null
    THEN /\ nExec < MaxExec
         /\ nExec' = nExec + 1
         /\ event' = [event EXCEPT ![t] = NoError]
         /\ pc' = [pc EXCEPT ![t] = "execute"]
         /\ cb' = [cb EXCEPT ![t] = [st |-> currentState', occ |-> lf.occ]]
         /\ life' = Called(lf, "execute")
    ELSE /\ pc' = [pc EXCEPT ![t] = "done"]
         /\ event' = [event EXCEPT ![t] = NoError]
         /\ cb' = [cb EXCEPT ![t] = NoCall]
         /\ life' = lf
         /\ nExec' = nExec

\* ------------------------------------------------------------------ Init
Init ==
    /\ initialState \in InitialStates
    /\ isRunning = FALSE
    /\ currentState = Null
    /\ data \in BOOLEAN
    /\ logger = NoLog
    /\ pc = [c \in Callers |-> "idle"]
    /\ cb = [c \in Callers |-> NoCall]
    /\ event = [t \in Callers |-> NoError]
    /\ target = [t \in Callers |-> Null]
    /\ error = [c \in Callers |-> NoMessage]
    /\ life = Occupancy(0, Null)
    /\ nExec = 0
    /\ mTransitions = << >>
    /\ mEvent = Null
    /\ mData = FALSE
    /\ mResult = 0
    /\ workflowMode = "monitor"
    /\ retryCount = [s \in RetryStages |-> 0]
    /\ matched = NoMatching
    /\ replayed = NotReplayed
    /\ mode = "monitor"
    /\ cycles = 0
    /\ failures = [s \in RetryStages |-> 0]
    /\ scheduler = NewScheduler
    /\ emitted = << >>
    /\ called = NotCalled
    /\ triggerType = "undefined"
    /\ cycleStartTime = "Date"
    /\ initialCycle = FALSE

\* An unmatched event is followed by the loop head with no await between
\* them: while a loop stands there, no other call runs.
Turn(c) == \A b \in Callers : pc[b] = "nomatch" => b = c

\* ------------------------------------------------------------- start()
\* start() without its first check: a call made while running goes ahead.
startWhileRunningProceeds(t) ==
    /\ Calls(t)
    /\ Turn(t)
    /\ isRunning
    /\ initialState \in states
    /\ currentState' = initialState
    /\ life' = Called(Occupancy(life.occ + 1, initialState), "enter")
    /\ pc' = [pc EXCEPT ![t] = "startEnter"]
    /\ cb' = [cb EXCEPT ![t] = [st |-> initialState, occ |-> life.occ + 1]]
    /\ UNCHANGED << initialState, isRunning, data, logger, event, target,
                    error, nExec >>
    /\ UNCHANGED matchVars
    /\ UNCHANGED stageVars
    /\ UNCHANGED flowVars
    /\ UNCHANGED schedulerVars
    /\ UNCHANGED contextVars

\* start() called while running: rejects before touching anything.
startAlreadyRunning(t) ==
    /\ Calls(t)
    /\ Turn(t)
    /\ isRunning
    /\ pc' = [pc EXCEPT ![t] = "rejected"]
    /\ error' = [error EXCEPT ![t] = AlreadyRunning]
    /\ UNCHANGED << initialState, isRunning, currentState, data, logger, cb,
                    event, target, life, nExec >>
    /\ UNCHANGED matchVars
    /\ UNCHANGED stageVars
    /\ UNCHANGED flowVars
    /\ UNCHANGED schedulerVars
    /\ UNCHANGED contextVars

\* start() with the lookup after the assignments: the flag is set first.
startInitialNotFoundAfterSet(t) ==
    /\ Calls(t)
    /\ Turn(t)
    /\ ~isRunning
    /\ initialState \notin states
    /\ isRunning' = TRUE
    /\ pc' = [pc EXCEPT ![t] = "rejected"]
    /\ error' = [error EXCEPT ![t] = InitialNotFound(initialState)]
    /\ UNCHANGED << initialState, currentState, data, logger, cb, event,
                    target, life, nExec >>
    /\ UNCHANGED matchVars
    /\ UNCHANGED stageVars
    /\ UNCHANGED flowVars
    /\ UNCHANGED schedulerVars
    /\ UNCHANGED contextVars

\* start() with an initial-state name that is not a registry key.
startInitialNotFound(t) ==
    /\ Calls(t)
    /\ Turn(t)
    /\ ~isRunning
    /\ initialState \notin states
    /\ pc' = [pc EXCEPT ![t] = "rejected"]
    /\ error' = [error EXCEPT ![t] = InitialNotFound(initialState)]
    /\ UNCHANGED << initialState, isRunning, currentState, data, logger, cb,
                    event, target, life, nExec >>
    /\ UNCHANGED matchVars
    /\ UNCHANGED stageVars
    /\ UNCHANGED flowVars
    /\ UNCHANGED schedulerVars
    /\ UNCHANGED contextVars

\* start(): sets Running, makes the initial state current, calls its enter.
start(t) ==
    /\ Calls(t)
    /\ Turn(t)
    /\ ~isRunning
    /\ initialState \in states
    /\ isRunning' = TRUE
    /\ currentState' = initialState
    /\ life' = Called(Occupancy(life.occ + 1, initialState), "enter")
    /\ pc' = [pc EXCEPT ![t] = "startEnter"]
    /\ cb' = [cb EXCEPT ![t] = [st |-> initialState, occ |-> life.occ + 1]]
    /\ UNCHANGED << initialState, data, logger, event, target, error, nExec >>
    /\ UNCHANGED matchVars
    /\ UNCHANGED stageVars
    /\ UNCHANGED flowVars
    /\ UNCHANGED schedulerVars
    /\ UNCHANGED contextVars

\* enter of the initial state returned: runStateMachine begins.
startEnterReturns(t) ==
    /\ pc[t] = "startEnter"
    /\ Turn(t)
    /\ UNCHANGED << initialState, isRunning, currentState, data, logger,
                    target, error >>
    /\ loopHead(t, EnterReturned(life, t))
    /\ UNCHANGED matchVars
    /\ UNCHANGED stageVars
    /\ UNCHANGED flowVars
    /\ UNCHANGED schedulerVars
    /\ UNCHANGED contextVars

\* enter of the initial state raised: the catch of start() logs and rethrows.
startEnterThrows(t) ==
    /\ pc[t] = "startEnter"
    /\ Turn(t)
    /\ logger' = Log("error", "State machine error")
    /\ pc' = [pc EXCEPT ![t] = "rejected"]
    /\ error' = [error EXCEPT ![t] = EnterFailed]
    /\ cb' = [cb EXCEPT ![t] = NoCall]
    /\ UNCHANGED << initialState, isRunning, currentState, data, event,
                    target, life, nExec >>
    /\ UNCHANGED matchVars
    /\ UNCHANGED stageVars
    /\ UNCHANGED flowVars
    /\ UNCHANGED schedulerVars
    /\ UNCHANGED contextVars

\* --------------------------------------------------- runStateMachine()
\* The catch with a retry ceiling of zero: a failure ends the run.
executeThrowsGivesUp(t) ==
    /\ pc[t] = "execute"
    /\ Turn(t)
    /\ event' = [event EXCEPT ![t] = "threw"]
    /\ logger' = Log("error", "Error in state")
    /\ life' = ExecuteSettled(life, t, TRUE)
    /\ isRunning' = FALSE
    /\ pc' = [pc EXCEPT ![t] = "done"]
    /\ cb' = [cb EXCEPT ![t] = NoCall]
    /\ UNCHANGED << initialState, currentState, data, target, error, nExec >>
    /\ UNCHANGED matchVars
    /\ UNCHANGED stageVars
    /\ UNCHANGED flowVars
    /\ UNCHANGED schedulerVars
    /\ UNCHANGED contextVars

\* execute raised: the catch of the loop logs and starts the 1000 ms wait.
executeThrows(t) ==
    /\ pc[t] = "execute"
    /\ Turn(t)
    /\ event' = [event EXCEPT ![t] = "threw"]
    /\ logger' = Log("error", "Error in state")
    /\ life' = ExecuteSettled(life, t, TRUE)
    /\ pc' = [pc EXCEPT ![t] = "backoff"]
    /\ cb' = cb
    /\ UNCHANGED << initialState, isRunning, currentState, data, target,
                    error, nExec >>
    /\ UNCHANGED matchVars
    /\ UNCHANGED stageVars
    /\ UNCHANGED flowVars
    /\ UNCHANGED schedulerVars
    /\ UNCHANGED contextVars

\* The terminal branch without its stop: the loop polls on.
terminalHaltKeepsPolling(t) ==
    /\ pc[t] = "execute"
    /\ Turn(t)
    /\ getTransitions(currentState) = << >>
    /\ event' = [event EXCEPT ![t] = Null]
    /\ logger' = Log("info", "Terminal state reached")
    /\ life' = ExecuteSettled(life, t, FALSE)
    /\ pc' = [pc EXCEPT ![t] = "poll"]
    /\ cb' = cb
    /\ UNCHANGED << initialState, isRunning, currentState, data, target,
                    error, nExec >>
    /\ UNCHANGED matchVars
    /\ UNCHANGED stageVars
    /\ UNCHANGED flowVars
    /\ UNCHANGED schedulerVars
    /\ UNCHANGED contextVars

\* execute returned null and the current state has no transitions.
terminalHalt(t) ==
    /\ pc[t] = "execute"
    /\ Turn(t)
    /\ getTransitions(currentState) = << >>
    /\ event' = [event EXCEPT ![t] = Null]
    /\ logger' = Log("info", "Terminal state reached")
    /\ isRunning' = FALSE
    /\ life' = ExecuteSettled(life, t, FALSE)
    /\ pc' = [pc EXCEPT ![t] = "done"]
    /\ cb' = [cb EXCEPT ![t] = NoCall]
    /\ UNCHANGED << initialState, currentState, data, target, error, nExec >>
    /\ UNCHANGED matchVars
    /\ UNCHANGED stageVars
    /\ UNCHANGED flowVars
    /\ UNCHANGED schedulerVars
    /\ UNCHANGED contextVars

\* execute returned null and the current state has transitions: 100 ms wait.
pollWait(t) ==
    /\ pc[t] = "execute"
    /\ Turn(t)
    /\ getTransitions(currentState) # << >>
    /\ event' = [event EXCEPT ![t] = Null]
    /\ life' = ExecuteSettled(life, t, FALSE)
    /\ pc' = [pc EXCEPT ![t] = "poll"]
    /\ cb' = cb
    /\ UNCHANGED << initialState, isRunning, currentState, data, logger,
                    target, error, nExec >>
    /\ UNCHANGED matchVars
    /\ UNCHANGED stageVars
    /\ UNCHANGED flowVars
    /\ UNCHANGED schedulerVars
    /\ UNCHANGED contextVars

\* The loop without its catch: a raising guard rejects start().
guardThrowsRejects(t, e) ==
    /\ pc[t] = "execute"
    /\ Turn(t)
    /\ findTransition(getTransitions(currentState), e, data) = Raised
    /\ event' = [event EXCEPT ![t] = e]
    /\ logger' = Log("error", "State machine error")
    /\ life' = ExecuteSettled(life, t, FALSE)
    /\ pc' = [pc EXCEPT ![t] = "rejected"]
    /\ error' = [error EXCEPT ![t] = << "guard failed" >>]
    /\ cb' = [cb EXCEPT ![t] = NoCall]
    /\ UNCHANGED << initialState, isRunning, currentState, data, target,
                    nExec >>
    /\ UNCHANGED matchVars
    /\ UNCHANGED stageVars
    /\ UNCHANGED flowVars
    /\ UNCHANGED schedulerVars
    /\ UNCHANGED contextVars

\* execute returned an event and a guard raised inside findTransition.
guardThrows(t, e) ==
    /\ pc[t] = "execute"
    /\ Turn(t)
    /\ findTransition(getTransitions(currentState), e, data) = Raised
    /\ event' = [event EXCEPT ![t] = e]
    /\ logger' = Log("error", "Error in state")
    /\ life' = ExecuteSettled(life, t, FALSE)
    /\ pc' = [pc EXCEPT ![t] = "backoff"]
    /\ cb' = cb
    /\ UNCHANGED << initialState, isRunning, currentState, data, target,
                    error, nExec >>
    /\ UNCHANGED matchVars
    /\ UNCHANGED stageVars
    /\ UNCHANGED flowVars
    /\ UNCHANGED schedulerVars
    /\ UNCHANGED contextVars

\* The unmatched event handled like the terminal case: the run ends.
noTransitionHalts(t, e) ==
    /\ pc[t] = "execute"
    /\ Turn(t)
    /\ findTransition(getTransitions(currentState), e, data) = 0
    /\ event' = [event EXCEPT ![t] = e]
    /\ logger' = Log("debug", "No transition found")
    /\ life' = ExecuteSettled(life, t, FALSE)
    /\ isRunning' = FALSE
    /\ pc' = [pc EXCEPT ![t] = "done"]
    /\ cb' = [cb EXCEPT ![t] = NoCall]
    /\ UNCHANGED << initialState, currentState, data, target, error, nExec >>
    /\ UNCHANGED matchVars
    /\ UNCHANGED stageVars
    /\ UNCHANGED flowVars
    /\ UNCHANGED schedulerVars
    /\ UNCHANGED contextVars

\* execute returned an event no transition qualifies for: it is dropped.
\* The loop goes on to its head in the same synchronous run (see Turn).
noTransition(t, e) ==
    /\ pc[t] = "execute"
    /\ Turn(t)
    /\ findTransition(getTransitions(currentState), e, data) = 0
    /\ event' = [event EXCEPT ![t] = e]
    /\ logger' = Log("debug", "No transition found")
    /\ life' = ExecuteSettled(life, t, FALSE)
    /\ pc' = [pc EXCEPT ![t] = "nomatch"]
    /\ cb' = cb
    /\ UNCHANGED << initialState, isRunning, currentState, data, target,
                    error, nExec >>
    /\ UNCHANGED matchVars
    /\ UNCHANGED stageVars
    /\ UNCHANGED flowVars
    /\ UNCHANGED schedulerVars
    /\ UNCHANGED contextVars

\* executeTransition calling exit before it looks the target up.
targetNotFoundAfterExit(t, e) ==
    /\ pc[t] = "execute"
    /\ Turn(t)
    /\ LET trs == getTransitions(currentState)
           i == findTransition(trs, e, data)
       IN  /\ i > 0
           /\ trs[i].targetState \notin states
    /\ event' = [event EXCEPT ![t] = e]
    /\ logger' = Log("error", "Target state not found")
    /\ life' = Called(ExecuteSettled(life, t, FALSE), "exit")
    /\ pc' = [pc EXCEPT ![t] = "missing"]
    /\ cb' = cb
    /\ UNCHANGED << initialState, isRunning, currentState, data, target,
                    error, nExec >>
    /\ UNCHANGED matchVars
    /\ UNCHANGED stageVars
    /\ UNCHANGED flowVars
    /\ UNCHANGED schedulerVars
    /\ UNCHANGED contextVars

\* executeTransition with a target that is not a registry key.
targetNotFound(t, e) ==
    /\ pc[t] = "execute"
    /\ Turn(t)
    /\ LET trs == getTransitions(currentState)
           i == findTransition(trs, e, data)
       IN  /\ i > 0
           /\ trs[i].targetState \notin states
    /\ event' = [event EXCEPT ![t] = e]
    /\ logger' = Log("error", "Target state not found")
    /\ life' = ExecuteSettled(life, t, FALSE)
    /\ pc' = [pc EXCEPT ![t] = "missing"]
    /\ cb' = cb
    /\ UNCHANGED << initialState, isRunning, currentState, data, target,
                    error, nExec >>
    /\ UNCHANGED matchVars
    /\ UNCHANGED stageVars
    /\ UNCHANGED flowVars
    /\ UNCHANGED schedulerVars
    /\ UNCHANGED contextVars

\* executeTransition with a registered target: exit is called on the
\* current state.
executeTransition(t, e) ==
    /\ pc[t] = "execute"
    /\ Turn(t)
    /\ LET trs == getTransitions(currentState)
           i == findTransition(trs, e, data)
       IN  /\ i > 0
           /\ trs[i].targetState \in states
           /\ target' = [target EXCEPT ![t] = trs[i].targetState]
    /\ event' = [event EXCEPT ![t] = e]
    /\ logger' = Log("info", "Transitioning")
    /\ pc' = [pc EXCEPT ![t] = "exit"]
    /\ cb' = [cb EXCEPT ![t] = Call(currentState)]
    /\ life' = Called(ExecuteSettled(life, t, FALSE), "exit")
    /\ UNCHANGED << initialState, isRunning, currentState, data, error,
                    nExec >>
    /\ UNCHANGED matchVars
    /\ UNCHANGED stageVars
    /\ UNCHANGED flowVars
    /\ UNCHANGED schedulerVars
    /\ UNCHANGED contextVars

\* executeTransition without its assignment: the old state stays current
\* and is entered again.
exitReturnsKeepsCurrent(t) ==
    /\ pc[t] = "exit"
    /\ Turn(t)
    /\ currentState' = currentState
    /\ life' = Called(Occupancy(life.occ + 1, currentState), "enter")
    /\ pc' = [pc EXCEPT ![t] = "enter"]
    /\ cb' = [cb EXCEPT ![t] = [st |-> currentState, occ |-> life.occ + 1]]
    /\ UNCHANGED << initialState, isRunning, data, logger, event, target,
                    error, nExec >>
    /\ UNCHANGED matchVars
    /\ UNCHANGED stageVars
    /\ UNCHANGED flowVars
    /\ UNCHANGED schedulerVars
    /\ UNCHANGED contextVars

\* exit of the old state returned: the target becomes current and its
\* enter is called.
exitReturns(t) ==
    /\ pc[t] = "exit"
    /\ Turn(t)
    /\ currentState' = target[t]
    /\ life' = Called(Occupancy(life.occ + 1, target[t]), "enter")
    /\ pc' = [pc EXCEPT ![t] = "enter"]
    /\ cb' = [cb EXCEPT ![t] = [st |-> target[t], occ |-> life.occ + 1]]
    /\ UNCHANGED << initialState, isRunning, data, logger, event, target,
                    error, nExec >>
    /\ UNCHANGED matchVars
    /\ UNCHANGED stageVars
    /\ UNCHANGED flowVars
    /\ UNCHANGED schedulerVars
    /\ UNCHANGED contextVars

\* A raising exit treated as fatal: the loop clears the flag and returns.
exitThrowsEndsRun(t) ==
    /\ pc[t] = "exit"
    /\ Turn(t)
    /\ logger' = Log("error", "Error in state")
    /\ isRunning' = FALSE
    /\ pc' = [pc EXCEPT ![t] = "done"]
    /\ cb' = [cb EXCEPT ![t] = NoCall]
    /\ target' = [target EXCEPT ![t] = Null]
    /\ UNCHANGED << initialState, currentState, data, event, error, life,
                    nExec >>
    /\ UNCHANGED matchVars
    /\ UNCHANGED stageVars
    /\ UNCHANGED flowVars
    /\ UNCHANGED schedulerVars
    /\ UNCHANGED contextVars

\* exit of the old state raised: caught by the loop, no switch.
exitThrows(t) ==
    /\ pc[t] = "exit"
    /\ Turn(t)
    /\ logger' = Log("error", "Error in state")
    /\ pc' = [pc EXCEPT ![t] = "backoff"]
    /\ cb' = cb
    /\ target' = [target EXCEPT ![t] = Null]
    /\ UNCHANGED << initialState, isRunning, currentState, data, event,
                    error, life, nExec >>
    /\ UNCHANGED matchVars
    /\ UNCHANGED stageVars
    /\ UNCHANGED flowVars
    /\ UNCHANGED schedulerVars
    /\ UNCHANGED contextVars

\* enter of the new state returned: executeTransition resolves.
enterReturns(t) ==
    /\ pc[t] = "enter"
    /\ Turn(t)
    /\ pc' = [pc EXCEPT ![t] = "transitioned"]
    /\ cb' = cb
    /\ target' = [target EXCEPT ![t] = Null]
    /\ life' = EnterReturned(life, t)
    /\ UNCHANGED << initialState, isRunning, currentState, data, logger,
                    event, error, nExec >>
    /\ UNCHANGED matchVars
    /\ UNCHANGED stageVars
    /\ UNCHANGED flowVars
    /\ UNCHANGED schedulerVars
    /\ UNCHANGED contextVars

\* enter of the new state raised: caught by the loop, the switch stays.
enterThrows(t) ==
    /\ pc[t] = "enter"
    /\ Turn(t)
    /\ logger' = Log("error", "Error in state")
    /\ pc' = [pc EXCEPT ![t] = "backoff"]
    /\ cb' = cb
    /\ target' = [target EXCEPT ![t] = Null]
    /\ UNCHANGED << initialState, isRunning, currentState, data, event,
                    error, life, nExec >>
    /\ UNCHANGED matchVars
    /\ UNCHANGED stageVars
    /\ UNCHANGED flowVars
    /\ UNCHANGED schedulerVars
    /\ UNCHANGED contextVars

\* The loop re-tests its condition: after one of its waits (the 100 ms
\* poll, the 1000 ms backoff, the await of executeTransition), or at once
\* after an unmatched event.
resume(t) ==
    /\ pc[t] \in {"poll", "backoff", "missing", "transitioned", "nomatch"}
    /\ Turn(t)
    /\ UNCHANGED << initialState, isRunning, currentState, data, logger,
                    target, error >>
    /\ loopHead(t, life)
    /\ UNCHANGED matchVars
    /\ UNCHANGED stageVars
    /\ UNCHANGED flowVars
    /\ UNCHANGED schedulerVars
    /\ UNCHANGED contextVars

\* -------------------------------------------------------------- stop()
\* stop() without its first check: exit is called on whatever is current.
stopNotRunningExits(k) ==
    /\ Calls(k)
    /\ Turn(k)
    /\ ~isRunning
    /\ IF currentState # Null
       THEN /\ pc' = [pc EXCEPT ![k] = "stopExit"]
            /\ cb' = [cb EXCEPT ![k] = Call(currentState)]
            /\ life' = Called(life, "exit")
       ELSE /\ pc' = [pc EXCEPT ![k] = "stopped"]
            /\ UNCHANGED << cb, life >>
    /\ UNCHANGED << initialState, isRunning, currentState, data, logger,
                    event, target, error, nExec >>
    /\ UNCHANGED matchVars
    /\ UNCHANGED stageVars
    /\ UNCHANGED flowVars
    /\ UNCHANGED schedulerVars
    /\ UNCHANGED contextVars

\* stop() while not running: returns at once.
stopNotRunning(k) ==
    /\ Calls(k)
    /\ Turn(k)
    /\ ~isRunning
    /\ pc' = [pc EXCEPT ![k] = "stopped"]
    /\ UNCHANGED << initialState, isRunning, currentState, data, logger, cb,
                    event, target, error, life, nExec >>
    /\ UNCHANGED matchVars
    /\ UNCHANGED stageVars
    /\ UNCHANGED flowVars
    /\ UNCHANGED schedulerVars
    /\ UNCHANGED contextVars

\* stop() that also forgets the current state once it has called its exit.
stopClearsCurrent(k) ==
    /\ Calls(k)
    /\ Turn(k)
    /\ isRunning
    /\ isRunning' = FALSE
    /\ currentState' = Null
    /\ IF currentState # Null
       THEN /\ pc' = [pc EXCEPT ![k] = "stopExit"]
            /\ cb' = [cb EXCEPT ![k] = Call(currentState)]
            /\ life' = Called(life, "exit")
       ELSE /\ pc' = [pc EXCEPT ![k] = "stopped"]
            /\ UNCHANGED << cb, life >>
    /\ UNCHANGED << initialState, data, logger, event, target, error, nExec >>
    /\ UNCHANGED matchVars
    /\ UNCHANGED stageVars
    /\ UNCHANGED flowVars
    /\ UNCHANGED schedulerVars
    /\ UNCHANGED contextVars

\* stop() while running: clears the flag and calls exit on the current state.
stop(k) ==
    /\ Calls(k)
    /\ Turn(k)
    /\ isRunning
    /\ isRunning' = FALSE
    /\ IF currentState # Null
       THEN /\ pc' = [pc EXCEPT ![k] = "stopExit"]
            /\ cb' = [cb EXCEPT ![k] = Call(currentState)]
            /\ life' = Called(life, "exit")
       ELSE /\ pc' = [pc EXCEPT ![k] = "stopped"]
            /\ UNCHANGED << cb, life >>
    /\ UNCHANGED << initialState, currentState, data, logger, event, target,
                    error, nExec >>
    /\ UNCHANGED matchVars
    /\ UNCHANGED stageVars
    /\ UNCHANGED flowVars
    /\ UNCHANGED schedulerVars
    /\ UNCHANGED contextVars

\* the exit called by stop() returned: stop() resolves.
stopExitReturns(k) ==
    /\ pc[k] = "stopExit"
    /\ Turn(k)
    /\ pc' = [pc EXCEPT ![k] = "stopped"]
    /\ UNCHANGED << initialState, isRunning, currentState, data, logger, cb,
                    event, target, error, life, nExec >>
    /\ UNCHANGED matchVars
    /\ UNCHANGED stageVars
    /\ UNCHANGED flowVars
    /\ UNCHANGED schedulerVars
    /\ UNCHANGED contextVars

\* the exit called by stop() raised: stop() has no catch and rejects.
stopExitThrows(k) ==
    /\ pc[k] = "stopExit"
    /\ Turn(k)
    /\ pc' = [pc EXCEPT ![k] = "rejected"]
    /\ error' = [error EXCEPT ![k] = ExitFailed]
    /\ UNCHANGED << initialState, isRunning, currentState, data, logger, cb,
                    event, target, life, nExec >>
    /\ UNCHANGED matchVars
    /\ UNCHANGED stageVars
    /\ UNCHANGED flowVars
    /\ UNCHANGED schedulerVars
    /\ UNCHANGED contextVars

\* ----------------------------------------------------------- state code
\* A running execute writes the shared data (any state may write any key).
stateWrites(t) ==
    /\ pc[t] = "execute"
    /\ Turn(t)
    /\ data' = ~data
    /\ UNCHANGED << initialState, isRunning, currentState, logger, pc, cb,
                    event, target, error, life, nExec >>
    /\ UNCHANGED matchVars
    /\ UNCHANGED stageVars
    /\ UNCHANGED flowVars
    /\ UNCHANGED schedulerVars
    /\ UNCHANGED contextVars

\* ------------------------------------------------------------------ Next
Next ==
    \E c \in Callers :
        \/ startAlreadyRunning(c)
        \/ startInitialNotFound(c)
        \/ start(c)
        \/ startEnterReturns(c)
        \/ startEnterThrows(c)
        \/ executeThrows(c)
        \/ terminalHalt(c)
        \/ pollWait(c)
        \/ \E e \in Events :
              \/ guardThrows(c, e)
              \/ noTransition(c, e)
              \/ targetNotFound(c, e)
              \/ executeTransition(c, e)
        \/ exitReturns(c)
        \/ exitThrows(c)
        \/ enterReturns(c)
        \/ enterThrows(c)
        \/ resume(c)
        \/ stateWrites(c)
        \/ stopNotRunning(c)
        \/ stop(c)
        \/ stopExitReturns(c)
        \/ stopExitThrows(c)

Spec == Init /\ [][Next]_vars

\* ------------------------------------------- one start(), run to its end
\* The machine with a single start() call and no stop(): the continuations
\* of that call are the only steps, and the event loop runs each of them
\* once the promise it waits for has settled.
InitScenario ==
    /\ initialState \in InitialStates \cup {"S1"}
    /\ isRunning = FALSE
    /\ currentState = Null
    /\ data \in BOOLEAN
    /\ logger = NoLog
    /\ pc = [c \in Callers |-> "idle"]
    /\ cb = [c \in Callers |-> NoCall]
    /\ event = [t \in Callers |-> NoError]
    /\ target = [t \in Callers |-> Null]
    /\ error = [c \in Callers |-> NoMessage]
    /\ life = Occupancy(0, Null)
    /\ nExec = 0
    /\ mTransitions = << >>
    /\ mEvent = Null
    /\ mData = FALSE
    /\ mResult = 0
    /\ workflowMode = "monitor"
    /\ retryCount = [s \in RetryStages |-> 0]
    /\ matched = NoMatching
    /\ replayed = NotReplayed
    /\ mode = "monitor"
    /\ cycles = 0
    /\ failures = [s \in RetryStages |-> 0]
    /\ scheduler = NewScheduler
    /\ emitted = << >>
    /\ called = NotCalled
    /\ triggerType = "undefined"
    /\ cycleStartTime = "Date"
    /\ initialCycle = FALSE

NextScenario ==
    \/ startInitialNotFound(1)
    \/ start(1)
    \/ startEnterReturns(1)
    \/ startEnterThrows(1)
    \/ executeThrows(1)
    \/ terminalHalt(1)
    \/ pollWait(1)
    \/ \E e \in Events :
          \/ guardThrows(1, e)
          \/ noTransition(1, e)
          \/ targetNotFound(1, e)
          \/ executeTransition(1, e)
    \/ exitReturns(1)
    \/ exitThrows(1)
    \/ enterReturns(1)
    \/ enterThrows(1)
    \/ resume(1)

SpecScenario ==
    InitScenario /\ [][NextScenario]_vars /\ WF_vars(NextScenario)

\* ------------------------------------------- matching, as a pure function
NotApplied == -2    \* mResult before findTransition has been applied

MatchEvents == {"E1", "E2"}
MatchTargets == {"A", "B"}
MatchTransitions ==
    {Transition(e, s, g) : e \in MatchEvents, s \in MatchTargets, g \in GuardKinds}

RECURSIVE Lists(_, _)
Lists(S, n) ==
    IF n = 0 THEN {<< >>}
    ELSE LET shorter == Lists(S, n - 1)
         IN  shorter \cup {Append(l, x) : l \in shorter, x \in S}

InitMatch ==
    /\ initialState = "A"
    /\ isRunning = FALSE
    /\ currentState = Null
    /\ data = FALSE
    /\ logger = NoLog
    /\ pc = [c \in Callers |-> "idle"]
    /\ cb = [c \in Callers |-> NoCall]
    /\ event = [t \in Callers |-> NoError]
    /\ target = [t \in Callers |-> Null]
    /\ error = [c \in Callers |-> NoMessage]
    /\ life = Occupancy(0, Null)
    /\ nExec = 0
    /\ mTransitions \in Lists(MatchTransitions, MaxLen)
    /\ mEvent \in MatchEvents
    /\ mData \in BOOLEAN
    /\ mResult = NotApplied
    /\ workflowMode = "monitor"
    /\ retryCount = [s \in RetryStages |-> 0]
    /\ matched = NoMatching
    /\ replayed = NotReplayed
    /\ mode = "monitor"
    /\ cycles = 0
    /\ failures = [s \in RetryStages |-> 0]
    /\ scheduler = NewScheduler
    /\ emitted = << >>
    /\ called = NotCalled
    /\ triggerType = "undefined"
    /\ cycleStartTime = "Date"
    /\ initialCycle = FALSE

\* findTransition applied to the drawn list, event and shared data.
applyFindTransition ==
    /\ mResult = NotApplied
    /\ mResult' = findTransition(mTransitions, mEvent, mData)
    /\ UNCHANGED << mTransitions, mEvent, mData >>
    /\ UNCHANGED << initialState, isRunning, currentState, data, logger, pc,
                    cb, event, target, error, life, nExec >>
    /\ UNCHANGED stageVars
    /\ UNCHANGED flowVars
    /\ UNCHANGED schedulerVars
    /\ UNCHANGED contextVars

NextMatch == applyFindTransition

SpecMatch == InitMatch /\ [][NextMatch]_vars

\* ------------------------------------------ the stages of the workflow
engineVars == << initialState, isRunning, currentState, data, logger, pc,
                 cb, event, target, error, life, nExec >>

\* context.data as the guards of the stages see it.
StageData == [workflowMode |-> workflowMode]

\* The counter a matching on stage s depends on (none for a stage without).
CountOf(s) == IF s \in RetryStages THEN retryCount[s] ELSE 0

InitStages ==
    /\ initialState = "A"
    /\ isRunning = FALSE
    /\ currentState = Null
    /\ data = FALSE
    /\ logger = NoLog
    /\ pc = [c \in Callers |-> "idle"]
    /\ cb = [c \in Callers |-> NoCall]
    /\ event = [t \in Callers |-> NoError]
    /\ target = [t \in Callers |-> Null]
    /\ error = [c \in Callers |-> NoMessage]
    /\ life = Occupancy(0, Null)
    /\ nExec = 0
    /\ mTransitions = << >>
    /\ mEvent = Null
    /\ mData = FALSE
    /\ mResult = 0
    /\ workflowMode \in WorkflowModes
    /\ retryCount = [s \in RetryStages |-> 0]
    /\ matched = NoMatching
    /\ replayed = NotReplayed
    /\ mode = "monitor"
    /\ cycles = 0
    /\ failures = [s \in RetryStages |-> 0]
    /\ scheduler = NewScheduler
    /\ emitted = << >>
    /\ called = NotCalled
    /\ triggerType = "undefined"
    /\ cycleStartTime = "Date"
    /\ initialCycle = FALSE

\* One iteration of the run loop on stage s: its execute has set the
\* counter to rc and returned e (Null for null), and, with no await in
\* between, the engine matches e against the stage's transitions.  The
\* matching is kept for a later replay when keep is chosen.
stageIteration(s, rc, e, keep) ==
    /\ retryCount' = IF s \in RetryStages
                     THEN [retryCount EXCEPT ![s] = rc]
                     ELSE retryCount
    /\ workflowMode' = workflowMode
    /\ IF keep /\ e # Null
       THEN /\ matched' = [stage |-> s, event |-> e,
                           result |-> selected(getTransitions(s), e, StageData)',
                           count |-> CountOf(s)']
            /\ replayed' = NotReplayed
       ELSE UNCHANGED << matched, replayed >>
    /\ UNCHANGED engineVars
    /\ UNCHANGED matchVars
    /\ UNCHANGED flowVars
    /\ UNCHANGED schedulerVars
    /\ UNCHANGED contextVars

\* The failure count without its test against maxRetries.
countFailureUnchecked(s) == retryCount[s] + 1

\* The counter after a failure that is retried while the budget lasts and
\* resets it once it is spent (handleSyncFailure and its like).
countFailure(s) ==
    IF retryCount[s] < maxRetries(s) THEN retryCount[s] + 1 ELSE 0

\* What an execute leaves behind: the stage's counter and the event it
\* returned (Null for null).
Settled(rc, e) == [count |-> rc, event |-> e]

\* ChangeDetectionState.execute, by what it found.
ChangeDetectionExecute(o) ==
    Settled(0, IF o \in {"noBaselines", "changed"}
               THEN "VISUAL_CHANGE_DETECTED"
               ELSE "NO_CHANGE_DETECTED")

\* RecipeExecutionState.execute, by how the recipes went.
RecipeExecutionExecute(o) ==
    LET s == "RECIPE_EXECUTION"
        left == retryCount[s] < maxRetries(s)
    IN  CASE o \in {"noRecipes", "invalid"} ->
                Settled(retryCount[s], "EXECUTION_FAILED")
          [] o = "allFailed" ->
                IF left THEN Settled(retryCount[s] + 1, Null)
                ELSE Settled(retryCount[s], "EXECUTION_FAILED")
          [] o = "someFailed" ->
                IF left THEN Settled(retryCount[s] + 1, Null)
                ELSE Settled(0, "SCREENSHOTS_CAPTURED")
          [] o = "captured" ->
                Settled(0, "SCREENSHOTS_CAPTURED")
          [] o = "threw" ->
                IF left THEN Settled(retryCount[s] + 1, Null)
                ELSE Settled(0, "EXECUTION_FAILED")

\* QualityAuditState.execute, by what the audit gave.
QualityAuditExecute(o) ==
    LET s == "QUALITY_AUDIT"
        left == retryCount[s] < maxRetries(s)
    IN  CASE o = "noScreenshots" ->
                Settled(retryCount[s], "QUALITY_CHECK_FAILED")
          [] o = "passed" ->
                Settled(0, "QUALITY_CHECK_PASSED")
          [] o = "failed" ->
                Settled(countFailure(s), "QUALITY_CHECK_FAILED")
          [] o = "threw" ->
                IF left THEN Settled(retryCount[s] + 1, Null)
                ELSE Settled(0, "QUALITY_CHECK_FAILED")

\* DistributionState.execute, by how the synchronisation went.
DistributionExecute(o) ==
    LET s == "DISTRIBUTION"
    IN  CASE o = "initialRun" ->
                Settled(retryCount[s], "SYNC_SUCCESSFUL")
          [] o = "synced" ->
                Settled(0, "SYNC_SUCCESSFUL")
          [] o \in {"missingSummary", "threw"} ->
                Settled(countFailure(s), "SYNC_FAILED")

\* The outcomes each execute distinguishes.
ChangeDetectionOutcomes ==
    {"noBaselines", "noBaselinesThrew", "noScreenshots", "changed",
     "unchanged", "threw"}
RecipeExecutionOutcomes ==
    {"noRecipes", "invalid", "allFailed", "someFailed", "captured", "threw"}
QualityAuditOutcomes == {"noScreenshots", "passed", "failed", "threw"}
DistributionOutcomes == {"initialRun", "missingSummary", "synced", "threw"}

\* One iteration of the run loop on each stage; r is what the execute has
\* left behind by the time the engine matches.
executeChangeDetection(o, keep) ==
    /\ o \in ChangeDetectionOutcomes
    /\ stageIteration("CHANGE_DETECTION", ChangeDetectionExecute(o).count,
                      ChangeDetectionExecute(o).event, keep)

executeRecipeExecution(o, keep) ==
    /\ o \in RecipeExecutionOutcomes
    /\ \E r \in {RecipeExecutionExecute(o)} :
          stageIteration("RECIPE_EXECUTION", r.count, r.event, keep)

executeQualityAudit(o, keep) ==
    /\ o \in QualityAuditOutcomes
    /\ \E r \in {QualityAuditExecute(o)} :
          stageIteration("QUALITY_AUDIT", r.count, r.event, keep)

executeDistribution(o, keep) ==
    /\ o \in DistributionOutcomes
    /\ \E r \in {DistributionExecute(o)} :
          stageIteration("DISTRIBUTION", r.count, r.event, keep)

\* The event of the kept matching is matched again against the transitions
\* of the same stage.
replay ==
    /\ matched # NoMatching
    /\ replayed = NotReplayed
    /\ replayed' = [result |-> selected(getTransitions(matched.stage),
                                        matched.event, StageData),
                    count |-> CountOf(matched.stage)]
    /\ UNCHANGED << workflowMode, retryCount, matched >>
    /\ UNCHANGED engineVars
    /\ UNCHANGED matchVars
    /\ UNCHANGED flowVars
    /\ UNCHANGED schedulerVars
    /\ UNCHANGED contextVars

Outcomes == {"noBaselines", "noBaselinesThrew", "noScreenshots", "changed",
             "unchanged", "threw",
             "noRecipes", "invalid", "allFailed", "someFailed", "captured",
             "passed", "failed", "initialRun", "missingSummary", "synced"}

NextStages ==
    \/ \E o \in Outcomes, keep \in BOOLEAN :
          \/ executeChangeDetection(o, keep)
          \/ executeRecipeExecution(o, keep)
          \/ executeQualityAudit(o, keep)
          \/ executeDistribution(o, keep)
    \/ replay

SpecStages == InitStages /\ [][NextStages]_vars

\* ------------------------------------------------- the Scheduler alone
\* The largest number of emitted events that is followed.
MaxEmitted == 3

\* The ScheduleConfig values drawn: interval in minutes.
ScheduleConfigs ==
    [interval : 0..2, cronExpression : CronExpressions, runOnStart : BOOLEAN]

\* A fresh Scheduler, with no listener that acts on the machine.
InitScheduler ==
    /\ initialState = "A"
    /\ isRunning = FALSE
    /\ currentState = Null
    /\ data = FALSE
    /\ logger = NoLog
    /\ pc = [c \in Callers |-> "idle"]
    /\ cb = [c \in Callers |-> NoCall]
    /\ event = [t \in Callers |-> NoError]
    /\ target = [t \in Callers |-> Null]
    /\ error = [c \in Callers |-> NoMessage]
    /\ life = Occupancy(0, Null)
    /\ nExec = 0
    /\ mTransitions = << >>
    /\ mEvent = Null
    /\ mData = FALSE
    /\ mResult = 0
    /\ workflowMode = "monitor"
    /\ retryCount = [s \in RetryStages |-> 0]
    /\ matched = NoMatching
    /\ replayed = NotReplayed
    /\ mode = "monitor"
    /\ cycles = 0
    /\ failures = [s \in RetryStages |-> 0]
    /\ scheduler = NewScheduler
    /\ emitted = << >>
    /\ called = NotCalled
    /\ triggerType = "undefined"
    /\ cycleStartTime = "Date"
    /\ initialCycle = FALSE

\* A call op on the scheduler settled as r says.
schedulerCalled(op, r) ==
    /\ Len(emitted) + Len(r.events) <= MaxEmitted
    /\ scheduler' = r.scheduler
    /\ emitted' = emitted \o r.events
    /\ called' = [op |-> op, before |-> scheduler, emitted |-> emitted,
                  threw |-> r.threw]
    /\ UNCHANGED << initialState, isRunning, currentState, data, logger, pc,
                    cb, event, target, error, life, nExec >>
    /\ UNCHANGED matchVars
    /\ UNCHANGED stageVars
    /\ UNCHANGED flowVars
    /\ UNCHANGED contextVars

callStartScheduledMonitoring(config) ==
    /\ config \in ScheduleConfigs
    /\ \E r \in {startScheduledMonitoring(scheduler, config)} :
          schedulerCalled("startScheduledMonitoring", r)

callStopScheduledMonitoring ==
    /\ Len(emitted) <= MaxEmitted
    /\ \E r \in {stopScheduledMonitoring(scheduler)} :
          schedulerCalled("stopScheduledMonitoring", r)

callTriggerManualRun ==
    /\ Len(emitted) <= MaxEmitted
    /\ \E r \in {triggerManualRun(scheduler)} :
          schedulerCalled("triggerManualRun", r)

\* The callback of the cron task or of the interval runs.
timerFires ==
    /\ scheduler.tasks \cup scheduler.intervals # {}
    /\ schedulerCalled("timer", SchedulerResult(scheduler, << "scheduled" >>,
                                                NoThrow))

NextScheduler ==
    \/ \E config \in ScheduleConfigs : callStartScheduledMonitoring(config)
    \/ callStopScheduledMonitoring
    \/ callTriggerManualRun
    \/ timerFires

SpecScheduler == InitScheduler /\ [][NextScheduler]_vars

\* ------------------------------------------------ the shipped workflows
\* workflow-config.json: the initial state and the state list of each mode.
configuredInitialState(m) ==
    IF m = "trigger" THEN "CHANGE_DETECTION" ELSE "MONITORING"

\* StateFactory.createStatesForMode: the keys of the registry built for
\* mode m.  The key AUDIT_COMPLETE carries the completion class of the mode.
createStatesForMode(m) ==
    CASE m = "monitor" ->
            {"MONITORING", "CHANGE_DETECTION", "RECIPE_EXECUTION",
             "QUALITY_AUDIT", "DISTRIBUTION", "AUDIT_COMPLETE"}
      [] m = "trigger" ->
            {"CHANGE_DETECTION", "RECIPE_EXECUTION", "QUALITY_AUDIT",
             "DISTRIBUTION", "TRIGGER_COMPLETE"}
      [] m = "schedule" ->
            {"MONITORING", "CHANGE_DETECTION", "RECIPE_EXECUTION",
             "QUALITY_AUDIT", "DISTRIBUTION", "SCHEDULE_COMPLETE"}

\* Values of workflowMode that are none of the enum: the property absent,
\* and a string that names no mode.
InvalidModes == {"undefined", "other"}

\* The states whose enter or exit does more than log and so may raise
\* (the screenshot service, the scheduler).
MayRaise == {"MONITORING", "CHANGE_DETECTION", "RECIPE_EXECUTION"}

\* How the two callbacks of a transition settle.
Callbacks == {"return", "exitRaises", "enterRaises"}

\* The largest count of pipeline entries that is told apart.
MaxCycles == 2

\* context.data.cycleStartTime: the Date buildWorkflow puts there, or a
\* value of initialData that is no Date.  Only ScheduleCompleteState uses
\* it outside a try, so only schedule mode is given both.
CycleStartTimes == {"Date", "string"}

\* The ScheduleConfig MonitoringState.enter builds from config.monitoring:
\* an interval of at least a minute, or, for an enter that raises, less.
MonitoringConfig(c) ==
    [interval |-> IF c = "enterRaises" THEN 0 ELSE 1,
     cronExpression |-> "none", runOnStart |-> TRUE]

\* What enter of state to does on the scheduler s of MonitoringState.
enterScheduler(to, c, s) ==
    IF to = "MONITORING"
    THEN startScheduledMonitoring(s, MonitoringConfig(c))
    ELSE SchedulerResult(s, << >>, NoThrow)

\* What exit of state from does on it.
exitScheduler(from, s) ==
    IF from = "MONITORING"
    THEN stopScheduledMonitoring(s)
    ELSE SchedulerResult(s, << >>, NoThrow)

\* WorkflowBuilder.buildWorkflow: the machine of a mode before start().
\* initialData is spread over the defaults and may replace workflowMode
\* and cycleStartTime.
InitFlow ==
    /\ mode \in WorkflowModes
    /\ workflowMode \in {mode} \cup InvalidModes
    /\ initialState = configuredInitialState(mode)
    /\ isRunning = FALSE
    /\ currentState = Null
    /\ data = FALSE
    /\ logger = NoLog
    /\ pc = [c \in Callers |-> "idle"]
    /\ cb = [c \in Callers |-> NoCall]
    /\ event = [t \in Callers |-> NoError]
    /\ target = [t \in Callers |-> Null]
    /\ error = [c \in Callers |-> NoMessage]
    /\ life = Occupancy(0, Null)
    /\ nExec = 0
    /\ mTransitions = << >>
    /\ mEvent = Null
    /\ mData = FALSE
    /\ mResult = 0
    /\ retryCount = [s \in RetryStages |-> 0]
    /\ matched = NoMatching
    /\ replayed = NotReplayed
    /\ cycles = 0
    /\ failures = [s \in RetryStages |-> 0]
    /\ scheduler = NewScheduler
    /\ emitted = << >>
    /\ called = NotCalled
    /\ triggerType = "undefined"
    /\ cycleStartTime \in IF mode = "schedule" THEN CycleStartTimes
                          ELSE {"Date"}
    /\ initialCycle = FALSE

\* The largest count of failure events of one stage that is told apart.
MaxFailures == 3

\* The event by which each retrying stage reports a failure.
failureEvent(s) ==
    CASE s = "RECIPE_EXECUTION" -> "EXECUTION_FAILED"
      [] s = "QUALITY_AUDIT"    -> "QUALITY_CHECK_FAILED"
      [] s = "DISTRIBUTION"     -> "SYNC_FAILED"

\* The entries into CHANGE_DETECTION, counted up to MaxCycles.
Entered(s) ==
    IF s = "CHANGE_DETECTION" /\ cycles < MaxCycles THEN cycles + 1
    ELSE cycles

\* The failure events counted per stage, up to MaxFailures: stage s has
\* returned e; a success event of s ends its run of failures.
Returned(s, e) ==
    IF s \notin RetryStages \/ e = Null THEN failures
    ELSE IF e # failureEvent(s) THEN [failures EXCEPT ![s] = 0]
    ELSE IF failures[s] < MaxFailures
    THEN [failures EXCEPT ![s] = failures[s] + 1]
    ELSE failures

\* A new cycle begins when CHANGE_DETECTION is entered.
CycleOf(to, f) ==
    IF to = "CHANGE_DETECTION" THEN [s \in RetryStages |-> 0] ELSE f

flowUnchanged ==
    /\ UNCHANGED << cb, target, life, nExec, replayed, mode, initialState,
                    emitted, called >>
    /\ UNCHANGED matchVars

\* ScreenshotWorkflow.start on the built machine (caller 1): start() finds
\* the initial state, sets the flag, enters the state and starts the loop;
\* an enter that raises rejects the call before the loop is started.
flowStart(c) ==
    /\ pc[1] = "idle"
    /\ c \in {"return", "enterRaises"}
    /\ c = "enterRaises" => initialState \in MayRaise
    /\ initialState \in createStatesForMode(mode)
    /\ isRunning' = TRUE
    /\ currentState' = initialState
    /\ cycles' = Entered(initialState)
    /\ failures' = failures
    /\ data' = data
    /\ IF c = "return"
       THEN /\ pc' = [pc EXCEPT ![1] = "loop"]
            /\ logger' = Log("info", "State machine started")
            /\ error' = error
       ELSE /\ pc' = [pc EXCEPT ![1] = "rejected"]
            /\ logger' = Log("error", "State machine error")
            /\ error' = [error EXCEPT ![1] = EnterFailed]
    /\ \E n \in {enterScheduler(initialState, c, scheduler)} :
          /\ initialState = "MONITORING"
                => ((c = "enterRaises") <=> (n.threw # NoThrow))
          /\ scheduler' = n.scheduler
          /\ triggerType' = Handled(triggerType, n.events)
    /\ UNCHANGED << workflowMode, retryCount, matched, event,
                    cycleStartTime,
                    initialCycle >>
    /\ flowUnchanged

\* The loop without its test for a terminal state: any null ends the run.
flowIterationHaltsOnNull(s, rc, e, d, tt, c) ==
    /\ pc[1] = "loop"
    /\ isRunning
    /\ currentState = s
    /\ c \in Callbacks
    /\ data' = d
    /\ retryCount' = IF s \in RetryStages
                     THEN [retryCount EXCEPT ![s] = rc]
                     ELSE retryCount
    /\ workflowMode' = workflowMode
    /\ event' = [event EXCEPT ![1] = e]
    /\ IF e = Null
       THEN /\ c = "return"
            /\ matched' = matched
            /\ isRunning' = FALSE
            /\ pc' = [pc EXCEPT ![1] = "done"]
            /\ logger' = Log("info", "Terminal state reached")
            /\ triggerType' = tt
            /\ UNCHANGED << currentState, cycles, error, failures,
                            scheduler >>
       ELSE LET to == selected(getTransitions(s), e, StageData)'
            IN  /\ matched' = [stage |-> s, event |-> e, result |-> to,
                               count |-> CountOf(s)']
                /\ UNCHANGED << isRunning, pc, error >>
                /\ IF to = Null
                   THEN /\ c = "return"
                        /\ logger' = Log("debug", "No transition found")
                        /\ failures' = Returned(s, e)
                        /\ triggerType' = tt
                        /\ UNCHANGED << currentState, cycles, scheduler >>
                   ELSE IF to \notin createStatesForMode(mode)
                   THEN /\ c = "return"
                        /\ logger' = Log("error", "Target state not found")
                        /\ failures' = Returned(s, e)
                        /\ triggerType' = tt
                        /\ UNCHANGED << currentState, cycles, scheduler >>
                   ELSE IF c = "exitRaises"
                   THEN /\ s \in MayRaise
                        /\ logger' = Log("error", "Error in state")
                        /\ failures' = Returned(s, e)
                        /\ triggerType' = tt
                        /\ UNCHANGED << currentState, cycles, scheduler >>
                   ELSE /\ c = "enterRaises" => to \in MayRaise
                        /\ currentState' = to
                        /\ cycles' = Entered(to)
                        /\ failures' = CycleOf(to, Returned(s, e))
                        /\ \E x \in {exitScheduler(s, scheduler)} :
                           \E n \in {enterScheduler(to, c, x.scheduler)} :
                              /\ to = "MONITORING"
                                    => ((c = "enterRaises")
                                           <=> (n.threw # NoThrow))
                              /\ scheduler' = n.scheduler
                              /\ triggerType' =
                                    Handled(tt, x.events \o n.events)
                        /\ logger' = IF c = "enterRaises"
                                     THEN Log("error", "Error in state")
                                     ELSE Log("info", "Transitioning")
    /\ flowUnchanged

\* One iteration of runStateMachine on the current state s, with nothing
\* else running in between: execute has set the counter of s to rc and
\* returned e (Null for null) and left context.data.isInitialRun as d; the
\* engine halts on a terminal state, waits on null, or matches e and runs
\* the transition whose callbacks settle as c says.
flowIteration(s, rc, e, d, tt, c) ==
    /\ pc[1] = "loop"
    /\ isRunning
    /\ currentState = s
    /\ c \in Callbacks
    /\ data' = d
    /\ retryCount' = IF s \in RetryStages
                     THEN [retryCount EXCEPT ![s] = rc]
                     ELSE retryCount
    /\ workflowMode' = workflowMode
    /\ event' = [event EXCEPT ![1] = e]
    /\ IF e = Null
       THEN /\ c = "return"
            /\ matched' = matched
            /\ IF Len(getTransitions(s)) = 0
               THEN /\ isRunning' = FALSE
                    /\ pc' = [pc EXCEPT ![1] = "done"]
                    /\ logger' = Log("info", "Terminal state reached")
               ELSE UNCHANGED << isRunning, pc, logger >>
            /\ triggerType' = tt
            /\ UNCHANGED << currentState, cycles, error, failures,
                            scheduler >>
       ELSE LET to == selected(getTransitions(s), e, StageData)'
            IN  /\ matched' = [stage |-> s, event |-> e, result |-> to,
                               count |-> CountOf(s)']
                /\ UNCHANGED << isRunning, pc, error >>
                /\ IF to = Null
                   THEN /\ c = "return"
                        /\ logger' = Log("debug", "No transition found")
                        /\ failures' = Returned(s, e)
                        /\ triggerType' = tt
                        /\ UNCHANGED << currentState, cycles, scheduler >>
                   ELSE IF to \notin createStatesForMode(mode)
                   THEN /\ c = "return"
                        /\ logger' = Log("error", "Target state not found")
                        /\ failures' = Returned(s, e)
                        /\ triggerType' = tt
                        /\ UNCHANGED << currentState, cycles, scheduler >>
                   ELSE IF c = "exitRaises"
                   THEN /\ s \in MayRaise
                        /\ logger' = Log("error", "Error in state")
                        /\ failures' = Returned(s, e)
                        /\ triggerType' = tt
                        /\ UNCHANGED << currentState, cycles, scheduler >>
                   ELSE /\ c = "enterRaises" => to \in MayRaise
                        /\ currentState' = to
                        /\ cycles' = Entered(to)
                        /\ failures' = CycleOf(to, Returned(s, e))
                        /\ \E x \in {exitScheduler(s, scheduler)} :
                           \E n \in {enterScheduler(to, c, x.scheduler)} :
                              /\ to = "MONITORING"
                                    => ((c = "enterRaises")
                                           <=> (n.threw # NoThrow))
                              /\ scheduler' = n.scheduler
                              /\ triggerType' =
                                    Handled(tt, x.events \o n.events)
                        /\ logger' = IF c = "enterRaises"
                                     THEN Log("error", "Error in state")
                                     ELSE Log("info", "Transitioning")
    /\ flowUnchanged

\* MonitoringState.execute, by what it finds in context.data: the event
\* it returns and the triggerType it leaves.
MonitoringExecute(manualTrigger, tt) ==
    IF manualTrigger
    THEN [event |-> "MANUAL_TRIGGER", triggerType |-> tt]
    ELSE IF tt = "scheduled"
    THEN [event |-> "SCHEDULE_REACHED", triggerType |-> "null"]
    ELSE [event |-> Null, triggerType |-> tt]

\* context.data.manualTrigger: no statement of the program assigns it a
\* true value.
manualTrigger == FALSE

runMonitoring(c) ==
    /\ currentState = "MONITORING"
    /\ \E r \in {MonitoringExecute(manualTrigger, triggerType)},
          d \in {data} :
          flowIteration("MONITORING", 0, r.event, d, r.triggerType, c)
    /\ initialCycle' = FALSE
    /\ UNCHANGED cycleStartTime

\* ChangeDetectionState.execute sets isInitialRun when it finds no
\* baseline, before it captures.
runChangeDetection(o, c) ==
    /\ o \in ChangeDetectionOutcomes
    /\ \E r \in {ChangeDetectionExecute(o)},
          d \in {data \/ o \in {"noBaselines", "noBaselinesThrew"}},
          tt \in {triggerType} :
          flowIteration("CHANGE_DETECTION", 0, r.event, d, tt, c)
    /\ initialCycle' = (initialCycle
                          \/ o \in {"noBaselines", "noBaselinesThrew"})
    /\ UNCHANGED cycleStartTime

runRecipeExecution(o, c) ==
    /\ o \in RecipeExecutionOutcomes
    /\ \E r \in {RecipeExecutionExecute(o)}, d \in {data},
          tt \in {triggerType} :
          flowIteration("RECIPE_EXECUTION", r.count, r.event, d, tt, c)
    /\ UNCHANGED << cycleStartTime, initialCycle >>

runQualityAudit(o, c) ==
    /\ o \in QualityAuditOutcomes
    /\ \E r \in {QualityAuditExecute(o)}, d \in {data},
          tt \in {triggerType} :
          flowIteration("QUALITY_AUDIT", r.count, r.event, d, tt, c)
    /\ UNCHANGED << cycleStartTime, initialCycle >>

\* DistributionState.execute takes its initial-run path exactly when
\* isInitialRun is set.
runDistribution(o, c) ==
    /\ o \in DistributionOutcomes
    /\ (o = "initialRun") <=> data
    /\ \E r \in {DistributionExecute(o)}, d \in {data},
          tt \in {triggerType} :
          flowIteration("DISTRIBUTION", r.count, r.event, d, tt, c)
    /\ UNCHANGED << cycleStartTime, initialCycle >>

\* How the body of a completion stage ends: all of it ran, or something in
\* it raised before cleanupContextData.
CompletionOutcomes == {"completed", "threw"}

\* AuditCompleteState.execute returns CYCLE_COMPLETE whatever happens in
\* it; cleanupContextData deletes isInitialRun and triggerType and renews
\* cycleStartTime, unless something raised before it.
runAuditComplete(o, c) ==
    /\ o \in CompletionOutcomes
    /\ mode = "monitor"
    /\ \E d \in {IF o = "completed" THEN FALSE ELSE data},
          tt \in {IF o = "completed" THEN "undefined" ELSE triggerType} :
          flowIteration("AUDIT_COMPLETE", 0, "CYCLE_COMPLETE", d, tt, c)
    /\ cycleStartTime' = IF o = "completed" THEN "Date" ELSE cycleStartTime
    /\ UNCHANGED initialCycle

\* TriggerCompleteState.execute returns null whatever happens in it;
\* cleanupContextData deletes triggerType.
runTriggerComplete(o) ==
    /\ o \in CompletionOutcomes
    /\ mode = "trigger"
    /\ \E d \in {data},
          tt \in {IF o = "completed" THEN "undefined" ELSE triggerType} :
          flowIteration("TRIGGER_COMPLETE", 0, Null, d, tt, "return")
    /\ UNCHANGED << cycleStartTime, initialCycle >>

\* How the write of the audit summary of ScheduleCompleteState ends.
SummaryOutcomes == {"saved", "writeFailed"}

\* ScheduleCompleteState.execute: it calls getTime() on cycleStartTime
\* outside any try, then writes the summary inside one and returns null.
\* When the call raises, the catch of runStateMachine logs and waits, and
\* the loop goes round again.
runScheduleComplete(o) ==
    /\ o \in SummaryOutcomes
    /\ mode = "schedule"
    /\ IF cycleStartTime = "Date"
       THEN \E d \in {data}, tt \in {triggerType} :
               flowIteration("SCHEDULE_COMPLETE", 0, Null, d, tt, "return")
       ELSE /\ pc[1] = "loop"
            /\ isRunning
            /\ currentState = "SCHEDULE_COMPLETE"
            /\ event' = [event EXCEPT ![1] = "threw"]
            /\ logger' = Log("error", "Error in state")
            /\ UNCHANGED << isRunning, pc, currentState, data, error,
                            workflowMode, retryCount, matched, cycles,
                            failures, scheduler, triggerType >>
            /\ flowUnchanged
    /\ UNCHANGED << cycleStartTime, initialCycle >>

\* The interval timer MonitoringState.enter set up fires: the 'scheduled'
\* handler runs.
flowTimerFires ==
    /\ scheduler.intervals # {}
    /\ triggerType' = Handled(triggerType, << "scheduled" >>)
    /\ UNCHANGED << isRunning, pc, currentState, data, error, event, logger,
                    workflowMode, retryCount, matched, cycles, failures,
                    scheduler, cycleStartTime,
                    initialCycle >>
    /\ flowUnchanged

\* ScreenshotWorkflow.triggerManualRun on a running machine whose current
\* state is MONITORING: the scheduler emits 'manual' (in any other state
\* the call only logs).
flowTriggerManualRun ==
    /\ isRunning
    /\ currentState = "MONITORING"
    /\ \E r \in {triggerManualRun(scheduler)} :
          triggerType' = Handled(triggerType, r.events)
    /\ UNCHANGED << isRunning, pc, currentState, data, error, event, logger,
                    workflowMode, retryCount, matched, cycles, failures,
                    scheduler, cycleStartTime,
                    initialCycle >>
    /\ flowUnchanged

\* ScreenshotWorkflow.stop from outside (caller 2), between two iterations:
\* the flag is cleared and the current state exited; the loop ends at its
\* next test.
flowStop ==
    /\ pc[1] \in {"loop", "rejected"}
    /\ pc[2] = "idle"
    /\ isRunning
    /\ isRunning' = FALSE
    /\ pc' = [pc EXCEPT ![1] = IF pc[1] = "loop" THEN "done" ELSE pc[1],
                        ![2] = "stopped"]
    /\ logger' = Log("info", "State machine stopped")
    /\ scheduler' = exitScheduler(currentState, scheduler).scheduler
    /\ UNCHANGED << currentState, cycles, failures, error, event, data,
                    workflowMode, retryCount, matched, triggerType,
                    cycleStartTime,
                    initialCycle >>
    /\ flowUnchanged

FlowOutcomes ==
    ChangeDetectionOutcomes \cup RecipeExecutionOutcomes
        \cup QualityAuditOutcomes \cup DistributionOutcomes
        \cup CompletionOutcomes \cup SummaryOutcomes

NextFlow ==
    \/ \E c \in Callbacks : flowStart(c)
    \/ \E c \in Callbacks : runMonitoring(c)
    \/ \E o \in FlowOutcomes, c \in Callbacks :
          \/ runChangeDetection(o, c)
          \/ runRecipeExecution(o, c)
          \/ runQualityAudit(o, c)
          \/ runDistribution(o, c)
          \/ runAuditComplete(o, c)
    \/ \E o \in CompletionOutcomes : runTriggerComplete(o)
    \/ \E o \in SummaryOutcomes : runScheduleComplete(o)
    \/ flowTimerFires
    \/ flowTriggerManualRun
    \/ flowStop

SpecFlow == InitFlow /\ [][NextFlow]_vars

\* The same runs, with the event loop running every continuation of the run
\* loop whose promise has settled: the loop does not stand still while an
\* iteration is due.
SpecFlowFair == SpecFlow /\ WF_vars(NextFlow)

\* ------------------------------------------------------------ properties
InCallback(c) ==
    pc[c] \in {"startEnter", "enter", "execute", "exit", "stopExit"}

\* C1: terminal halt.  When the execute a run loop awaits returns null on
\* the current state and that state has no transitions, the loop clears
\* isRunning and returns without another execute call, and currentState is
\* still that state; a loop that has returned calls nothing again, and no
\* loop calls execute while isRunning is false.
C1_TerminalHalt ==
    [][/\ \A t \in Callers :
             /\ ( /\ pc[t] = "execute"
                  /\ event'[t] = Null
                  /\ cb[t].st = currentState
                  /\ getTransitions(currentState) = << >> )
                => /\ isRunning' = FALSE
                   /\ pc'[t] = "done"
                   /\ nExec' = nExec
                   /\ currentState' = currentState
             /\ pc[t] = "done" => (pc'[t] = "done" /\ cb'[t] = NoCall)
       /\ nExec' # nExec => isRunning]_vars

C1_Witness ==
    \E t \in Callers :
        /\ pc[t] = "done"
        /\ event[t] = Null
        /\ ~isRunning
        /\ currentState = "C"
        /\ life.st = "C"
        /\ life.executeCalls = 1
        /\ logger = Log("info", "Terminal state reached")

\* C2: findTransition returns the first transition, in declaration order,
\* whose eventType is the event's type and whose guard is absent or true on
\* the shared data; it returns none exactly when no transition qualifies;
\* and it raises only when a guard it had to evaluate raises.
Qualifies(tr, e, d) ==
    /\ tr.eventType = e
    /\ (tr.condition = "none" \/ condition(tr.condition, e, d) = "true")

C2_FirstQualifying ==
    LET Q == {i \in 1..Len(mTransitions) :
                 Qualifies(mTransitions[i], mEvent, mData)}
        R == {i \in 1..Len(mTransitions) :
                 /\ mTransitions[i].eventType = mEvent
                 /\ mTransitions[i].condition = "raise"}
    IN  /\ mResult = 0 => (Q = {} /\ R = {})
        /\ (Q = {} /\ R = {}) => mResult \in {0, NotApplied}
        /\ mResult > 0 => (mResult \in Q /\ \A j \in Q \cup R : mResult <= j)
        /\ mResult = Raised =>
              (mResult \notin Q /\ \E i \in R : \A j \in Q \cup R : i <= j)

C2_Witness ==
    /\ mResult = 2
    /\ Len(mTransitions) = 3
    /\ mTransitions[1].eventType = mEvent
    /\ mTransitions[1].condition = "flagOn"
    /\ ~mData
    /\ mTransitions[2].condition = "flagOff"
    /\ Qualifies(mTransitions[3], mEvent, mData)

\* The calls of stop() that found the machine running and called exit.
StopExited(k) ==
    /\ pc[k] \in {"stopExit", "stopped", "rejected"}
    /\ error[k] \in {NoMessage, ExitFailed}
    /\ cb[k] # NoCall

\* No start() or stop() is under way and the machine is not running.
RunEnded ==
    /\ ~isRunning
    /\ \A c \in Callers : pc[c] \in {"idle", "done", "rejected", "stopped"}

\* C3: a stop() made while the machine is running results in exactly one
\* exit call on the state that is current at that moment, whatever the run
\* loop does around it.
C3_StopExitsExactlyOnce ==
    \A k \in Callers :
        (StopExited(k) /\ cb[k].occ = life.occ) => life.exitCalls = 1

\* C4: no occupancy is exited twice, and once the run has ended the state
\* that was entered last has been exited exactly once.
C4_ExitExactlyOnce ==
    /\ life.exitCalls <= 1
    /\ (RunEnded /\ life.enterCalls >= 1) => life.exitCalls = 1

\* C5: each occupancy has exactly one enter call, and that call has
\* returned before the first execute call on the occupancy.
C5_EnterOnceBeforeExecute ==
    life.occ > 0 =>
        /\ life.enterCalls = 1
        /\ life.executeCalls > 0 => life.enterReturns = 1

\* C6: at most one state callback is in flight at any time.
C6_OneActiveCallback ==
    Cardinality({c \in Callers : InCallback(c)}) <= 1

\* C7: per occupancy the calls are enter, then executes, then exit, and
\* nothing after the exit; the next occupancy begins after that exit; a
\* transition exits the old state, switches currentState, enters the new.
C7_Sequential ==
    [][/\ ( /\ life'.occ = life.occ
            /\ \/ life'.enterCalls # life.enterCalls
               \/ life'.executeCalls # life.executeCalls
               \/ life'.exitCalls # life.exitCalls )
          => life.exitCalls = 0
       /\ (life'.occ # life.occ /\ life.occ > 0) => life.exitCalls = 1
       /\ \A t \in Callers :
             (pc[t] = "exit" /\ pc'[t] = "enter")
                => /\ currentState' = target[t]
                   /\ life'.st = target[t]
                   /\ life'.enterCalls = 1]_vars

\* The enter and exit calls made so far on the current occupancy.
Switches(lf) == << lf.occ, lf.st, lf.enterCalls, lf.exitCalls >>

\* The loop of call t goes from a wait back to its head: it calls execute
\* on the unchanged current state, with no enter or exit, or it returns
\* because the machine has been stopped meanwhile.
ExecutesAgain(t) ==
    /\ currentState' = currentState
    /\ isRunning' = isRunning
    /\ Switches(life') = Switches(life)
    /\ IF isRunning
       THEN /\ pc'[t] = "execute"
            /\ cb'[t] = [st |-> currentState, occ |-> life.occ]
            /\ nExec' = nExec + 1
            /\ cb[t].occ = life.occ => cb'[t] = cb[t]
       ELSE pc'[t] = "done" /\ nExec' = nExec

\* C8: when the awaited execute raises, the engine keeps currentState and
\* the running flag, calls neither exit nor enter, and after the backoff
\* calls execute on the same state again, however many failures preceded.
C8_ExecuteFailureRetried ==
    [][\A t \in Callers :
          /\ (pc[t] = "execute" /\ event'[t] = "threw")
                => /\ currentState' = currentState
                   /\ isRunning' = isRunning
                   /\ Switches(life') = Switches(life)
                   /\ target' = target
                   /\ nExec' = nExec
                   /\ pc'[t] = "backoff"
          /\ (pc[t] = "backoff" /\ event[t] = "threw" /\ pc'[t] # "backoff")
                => ExecutesAgain(t)]_vars

C8_Witness ==
    \E t \in Callers :
        /\ pc[t] = "backoff"
        /\ event[t] = "threw"
        /\ isRunning
        /\ life.failures = 2
        /\ life.executeCalls = 2
        /\ life.enterCalls = 1
        /\ life.exitCalls = 0
        /\ currentState = cb[t].st

\* The transition findTransition selects for event e in the current state
\* has a target that is not a key of the registry.
MissingTarget(e) ==
    LET trs == getTransitions(currentState)
        i == findTransition(trs, e, data)
    IN  i > 0 /\ trs[i].targetState \notin states

\* C9: when the event matches a transition whose target is not registered,
\* the engine logs an error, keeps currentState and the running flag, calls
\* neither exit nor enter, and goes on to execute the same state again.
C9_MissingTargetStays ==
    [][\A t \in Callers :
          /\ \A e \in Events :
                (pc[t] = "execute" /\ event'[t] = e /\ MissingTarget(e))
                   => /\ logger' = Log("error", "Target state not found")
                      /\ currentState' = currentState
                      /\ isRunning' = isRunning
                      /\ Switches(life') = Switches(life)
                      /\ nExec' = nExec
                      /\ pc'[t] = "missing"
          /\ (pc[t] = "missing" /\ pc'[t] # "missing") => ExecutesAgain(t)]_vars

C9_Witness ==
    \E t \in Callers :
        /\ pc[t] = "execute"
        /\ isRunning
        /\ currentState = "A"
        /\ cb[t].st = "A"
        /\ life.executeCalls = 2
        /\ life.enterCalls = 1
        /\ life.exitCalls = 0
        /\ logger = Log("error", "Target state not found")

\* C10: when the event matches no transition of the current state, it is
\* dropped: currentState, the running flag and the shared data stay as
\* they are, neither exit nor enter is called, and the loop executes the
\* same state again.
C10_UnmatchedEventDropped ==
    [][\A t \in Callers :
          /\ \A e \in Events :
                ( /\ pc[t] = "execute"
                  /\ event'[t] = e
                  /\ findTransition(getTransitions(currentState), e, data) = 0 )
                   => /\ currentState' = currentState
                      /\ isRunning' = isRunning
                      /\ data' = data
                      /\ Switches(life') = Switches(life)
                      /\ target' = target
                      /\ nExec' = nExec
                      /\ pc'[t] = "nomatch"
          /\ pc[t] = "nomatch" => (data' = data /\ ExecutesAgain(t))]_vars

C10_Witness ==
    \E t \in Callers :
        /\ pc[t] = "execute"
        /\ isRunning
        /\ currentState = "A"
        /\ cb[t].st = "A"
        /\ ~data
        /\ life.executeCalls = 2
        /\ life.enterCalls = 1
        /\ life.exitCalls = 0
        /\ logger = Log("debug", "No transition found")

\* C11: a call made on the machine while it is running that is not a stop()
\* is a start() that fails with the "already running" error; it calls no
\* state callback and leaves currentState, the running flag, the shared
\* data and the log as they were.
C11_StartWhileRunningRejected ==
    [][\A t \in Callers :
          (pc[t] = "idle" /\ pc'[t] # "idle" /\ isRunning)
             => \/ pc'[t] \in {"stopExit", "stopped"} /\ ~isRunning'
                \/ /\ pc'[t] = "rejected"
                   /\ error'[t] = AlreadyRunning
                   /\ isRunning'
                   /\ currentState' = currentState
                   /\ life' = life
                   /\ nExec' = nExec
                   /\ cb' = cb
                   /\ data' = data
                   /\ logger' = logger]_vars

C11_Witness ==
    \E t, u \in Callers :
        /\ pc[t] = "rejected"
        /\ error[t] = AlreadyRunning
        /\ pc[u] = "execute"
        /\ isRunning
        /\ currentState = "A"
        /\ life.enterCalls = 1
        /\ life.exitCalls = 0

\* The error message msg has the name among its parts.
Contains(msg, name) == \E i \in 1..Len(msg) : msg[i] = name

\* C12: when the configured initial-state name is not a registry key, every
\* start() fails with an error that contains the name, no callback of any
\* state is ever called, and the machine stays not running with no current
\* state.
C12_UnknownInitialState ==
    initialState \notin states =>
        /\ ~isRunning
        /\ currentState = Null
        /\ life = Occupancy(0, Null)
        /\ nExec = 0
        /\ \A c \in Callers :
              /\ pc[c] \in {"idle", "rejected", "stopped"}
              /\ cb[c] = NoCall
              /\ pc[c] = "rejected" => Contains(error[c], initialState)

C12_Witness ==
    /\ initialState = "X"
    /\ pc[1] = "rejected"
    /\ pc[2] = "stopped"
    /\ pc[3] = "rejected"
    /\ error[3] = InitialNotFound("X")
    /\ ~isRunning
    /\ currentState = Null

\* C13: a call made on the machine while it is not running that is not a
\* start() is a stop() that returns at once: it calls no exit and leaves the
\* running flag, currentState and everything else as they were, whether the
\* machine was never started, was stopped before, or halted by itself.
C13_StopNotRunningNoEffect ==
    [][\A k \in Callers :
          (pc[k] = "idle" /\ pc'[k] # "idle" /\ ~isRunning)
             => \/ pc'[k] = "startEnter" /\ isRunning'
                \/ pc'[k] = "rejected" /\ error'[k] # NoMessage
                \/ /\ pc' = [pc EXCEPT ![k] = "stopped"]
                   /\ error' = error
                   /\ isRunning' = isRunning
                   /\ currentState' = currentState
                   /\ life' = life
                   /\ nExec' = nExec
                   /\ cb' = cb
                   /\ data' = data
                   /\ logger' = logger]_vars

C13_Witness ==
    \E j, k \in Callers :
        /\ j < k
        /\ StopExited(j)
        /\ pc[j] = "stopped"
        /\ pc[k] = "stopped"
        /\ cb[k] = NoCall
        /\ ~isRunning
        /\ currentState = "A"
        /\ life.enterCalls = 1
        /\ life.exitCalls = 1

\* Where a start() stands once runStateMachine has begun.
InLoop(t) ==
    pc[t] \in {"execute", "exit", "enter", "poll", "backoff", "missing",
               "transitioned", "nomatch"}

\* C14 as stated: a start() rejects only with the error of one of its two
\* pre-loop checks; no failure of state code reaches its caller.
C14_OnlyChecksReject ==
    \A c \in Callers :
        (pc[c] = "rejected" /\ ~StopExited(c))
           => error[c] \in {AlreadyRunning, InitialNotFound(initialState)}

\* C14 as amended: a start() rejects only from one of its two pre-loop
\* checks or because the enter of the initial state raised, which it logs
\* and rethrows; once the loop has begun, a failure of state code (execute,
\* a guard, exit, or the enter of a transition) is logged as an error and
\* followed by the backoff and the next loop iteration, and start() never
\* rejects.
C14_LoopFailuresRetried ==
    [][\A t \in Callers :
          /\ (pc'[t] = "rejected" /\ pc[t] # "rejected")
                => \/ /\ pc[t] = "idle"
                      /\ error'[t] \in {AlreadyRunning,
                                        InitialNotFound(initialState)}
                   \/ /\ pc[t] = "startEnter"
                      /\ error'[t] = EnterFailed
                      /\ logger' = Log("error", "State machine error")
                   \/ /\ pc[t] = "stopExit"
                      /\ error'[t] = ExitFailed
          /\ InLoop(t)
                => /\ pc'[t] # "rejected"
                   /\ error'[t] = NoMessage
          /\ (InLoop(t) /\ pc[t] # "backoff" /\ pc'[t] = "backoff")
                => /\ logger' = Log("error", "Error in state")
                   /\ isRunning' = isRunning
          /\ (pc[t] = "backoff" /\ pc'[t] # "backoff")
                => pc'[t] = IF isRunning THEN "execute" ELSE "done"]_vars

C14_Witness ==
    \E t \in Callers :
        /\ pc[t] = "backoff"
        /\ event[t] = "E1"
        /\ currentState = "B"
        /\ cb[t].st = "B"
        /\ logger = Log("error", "Error in state")
        /\ isRunning
        /\ error[t] = NoMessage

\* C15: no call of stop() rejects: whatever the exit it awaits does, no
\* error reaches the caller of stop().
C15_StopNeverRaises ==
    \A k \in Callers :
        StopExited(k) => (pc[k] # "rejected" /\ error[k] = NoMessage)

\* C16: the running flag goes from true to false only in a step that is a
\* stop() being called or a loop's execute returning null on a current
\* state with no transitions; and a run loop returns only when it finds
\* the flag false, so a run ends by a stop() or by the terminal rule alone.
C16_EndsByStopOrTerminal ==
    [][/\ (isRunning /\ ~isRunning')
          => \E c \in Callers :
                \/ pc[c] = "idle" /\ pc'[c] \in {"stopExit", "stopped"}
                \/ /\ pc[c] = "execute"
                   /\ pc'[c] = "done"
                   /\ event'[c] = Null
                   /\ getTransitions(currentState) = << >>
       /\ \A t \in Callers :
             ((InLoop(t) \/ pc[t] = "startEnter") /\ pc'[t] = "done")
                => ~isRunning']_vars

C16_Witness ==
    \E t \in Callers :
        /\ pc[t] = "done"
        /\ ~isRunning
        /\ \A k \in Callers : ~StopExited(k) /\ pc[k] # "stopped"
        /\ initialState = "B"
        /\ currentState = "C"
        /\ life.occ = 2
        /\ life.executeCalls = 1
        /\ nExec = 2

\* C17: Stopped is terminal.  Once a machine that has been running is not
\* running, no step makes it running again and no step calls enter or
\* execute on any state.
C17_StoppedIsTerminal ==
    [][(life.occ > 0 /\ ~isRunning)
          => /\ ~isRunning'
             /\ nExec' = nExec
             /\ life'.occ = life.occ
             /\ life'.enterCalls = life.enterCalls]_vars

\* Call t completes the switch of a transition it matched: the exit it
\* awaited has returned and currentState becomes the registered target of a
\* transition of the exited state on the event.
SwitchesState(t) ==
    /\ pc[t] = "exit"
    /\ pc'[t] = "enter"
    /\ currentState' = target[t]
    /\ target[t] \in states
    /\ \E i \in 1..Len(getTransitions(cb[t].st)) :
          /\ getTransitions(cb[t].st)[i].eventType = event[t]
          /\ getTransitions(cb[t].st)[i].targetState = target[t]

\* C18 as stated: currentState changes only inside a successful transition.
C18_ChangesOnlyInTransition ==
    [][currentState' # currentState
          => \E t \in Callers : SwitchesState(t)]_vars

\* C18 as amended: currentState changes only when an accepted start() makes
\* the initial state current and inside a successful transition; stop(), a
\* failing execute, a null result, an unmatched event, a missing target and
\* the terminal halt leave it unchanged.
C18_ChangesInStartOrTransition ==
    [][currentState' # currentState
          => \E t \in Callers :
                \/ SwitchesState(t)
                \/ /\ pc[t] = "idle"
                   /\ pc'[t] = "startEnter"
                   /\ ~isRunning
                   /\ currentState' = initialState
                   /\ initialState \in states]_vars

C18_Witness ==
    \E t \in Callers :
        /\ pc[t] = "enter"
        /\ initialState = "A"
        /\ currentState = "B"
        /\ cb[t].st = "B"
        /\ event[t] = "E1"
        /\ life.occ = 2
        /\ isRunning

\* C19 as stated: matching the same event again against the transitions of
\* the same stage, the shared data being unchanged, selects the same
\* transition (or none), also for the stages with retry guards.
C19_ReplaySelectsSame ==
    replayed # NotReplayed => replayed.result = matched.result

\* C19 as amended: matching the same event again against the transitions of
\* the same stage selects the same transition (or none) when the shared
\* data and the stage's own retry counter are what they were at the first
\* matching, whatever the stages executed in between.
C19_ReplaySameCounterSelectsSame ==
    (replayed # NotReplayed /\ replayed.count = matched.count)
        => replayed.result = matched.result

C19_Witness ==
    /\ matched.stage = "DISTRIBUTION"
    /\ matched.event = "SYNC_FAILED"
    /\ matched.count = 2
    /\ matched.result = "MONITORING"
    /\ replayed.result = "MONITORING"
    /\ replayed.count = 2
    /\ retryCount["QUALITY_AUDIT"] = 1
    /\ retryCount["RECIPE_EXECUTION"] = 2

\* The completion state each workflow mode ends in.
ModeTarget(m) ==
    CASE m = "trigger"  -> "TRIGGER_COMPLETE"
      [] m = "schedule" -> "SCHEDULE_COMPLETE"
      [] m = "monitor"  -> "AUDIT_COMPLETE"

\* The transitions of stage s on event e whose guard is true now.
TrueGuards(s, e) ==
    {i \in 1..Len(getTransitions(s)) :
        /\ getTransitions(s)[i].eventType = e
        /\ condition(getTransitions(s)[i].condition, e, StageData) = "true"}

\* C20: for each workflow mode exactly one NO_CHANGE_DETECTED transition
\* of ChangeDetectionState and exactly one SYNC_SUCCESSFUL transition of
\* DistributionState has a true guard, its target is the completion state
\* of the mode, and that is the transition the engine selects.
C20_ModeFanOut ==
    \A st \in {<< "CHANGE_DETECTION", "NO_CHANGE_DETECTED" >>,
                << "DISTRIBUTION", "SYNC_SUCCESSFUL" >>} :
        /\ Cardinality(TrueGuards(st[1], st[2])) = 1
        /\ \A i \in TrueGuards(st[1], st[2]) :
              getTransitions(st[1])[i].targetState = ModeTarget(workflowMode)
        /\ selected(getTransitions(st[1]), st[2], StageData)
              = ModeTarget(workflowMode)
        /\ (matched.stage = st[1] /\ matched.event = st[2])
              => matched.result = ModeTarget(workflowMode)

C20_Witness ==
    /\ workflowMode = "schedule"
    /\ matched.stage = "DISTRIBUTION"
    /\ matched.event = "SYNC_SUCCESSFUL"
    /\ matched.result = "SCHEDULE_COMPLETE"
    /\ retryCount["DISTRIBUTION"] = 1
\* The completion states of the three modes.
CompletionStates == {"AUDIT_COMPLETE", "TRIGGER_COMPLETE", "SCHEDULE_COMPLETE"}

\* The stage and event of each mode fan-out.
FanOuts == {<< "CHANGE_DETECTION", "NO_CHANGE_DETECTED" >>,
            << "DISTRIBUTION", "SYNC_SUCCESSFUL" >>}

\* C21: when context.data.workflowMode is absent or none of the three mode
\* literals, no fan-out guard of ChangeDetectionState (NO_CHANGE_DETECTED)
\* or DistributionState (SYNC_SUCCESSFUL) is true: the engine selects no
\* transition for the event, the machine is still in the stage that emitted
\* it, and it is never in a completion state.
C21_InvalidModeUndelivered ==
    workflowMode \notin WorkflowModes
        => /\ \A st \in FanOuts :
                 /\ TrueGuards(st[1], st[2]) = {}
                 /\ selected(getTransitions(st[1]), st[2], StageData) = Null
                 /\ (matched.stage = st[1] /\ matched.event = st[2])
                       => /\ matched.result = Null
                          /\ currentState = st[1]
           /\ currentState \notin CompletionStates

C21_Witness ==
    /\ workflowMode = "undefined"
    /\ mode = "schedule"
    /\ matched.stage = "DISTRIBUTION"
    /\ matched.event = "SYNC_SUCCESSFUL"
    /\ matched.result = Null
    /\ currentState = "DISTRIBUTION"
    /\ logger = Log("debug", "No transition found")

\* C22: in the first cycle of a run, the first two consecutive SYNC_FAILED
\* events of DistributionState (retry limit 2) are routed to the retry
\* target DISTRIBUTION and the third to the give-up target MONITORING.
C22_TwoRetriesThenGiveUp ==
    (/\ cycles <= 1
     /\ workflowMode = mode
     /\ matched.stage = "DISTRIBUTION"
     /\ matched.event = "SYNC_FAILED")
        => /\ failures["DISTRIBUTION"] \in {1, 2}
                 => matched.result = "DISTRIBUTION"
           /\ failures["DISTRIBUTION"] = 3
                 => matched.result = "MONITORING"

\* The run so far is the one of scenario A: it began in S1 and no execute
\* has returned anything but E1 in S1 and null in S2, and no callback has
\* raised (each such step leaves the loop at one of these places).
ScenarioA ==
    /\ initialState = "S1"
    /\ pc[1] \notin {"rejected", "poll", "backoff", "missing", "nomatch"}

\* Halted in S2, the second state the run has occupied, on the first
\* execute of S2.
HaltedInS2 ==
    /\ pc[1] = "done"
    /\ ~isRunning
    /\ currentState = "S2"
    /\ life.occ = 2
    /\ life.enterCalls = 1
    /\ life.enterReturns = 1
    /\ life.executeCalls = 1
    /\ life.exitCalls = 0
    /\ nExec = 2
    /\ logger = Log("info", "Terminal state reached")

\* C23: scenario A.  With S1 initial, S1.execute returning E1 and
\* S2.execute returning null, every fair run switches from S1 to S2 once
\* (S1 exited, S2 entered) and then halts for good with isRunning false and
\* S2 current, after the first execute of S2.
C23_ScenarioA == ([]ScenarioA) => <>[]HaltedInS2

C23_Witness ==
    /\ initialState = "S1"
    /\ HaltedInS2
    /\ event[1] = Null

\* C24: in each shipped workflow, run with the workflowMode of its mode, the
\* registry holds the configured initial state and the target of every
\* transition the engine selects: the missing-target path is never taken.
C24_RegistryComplete ==
    workflowMode = mode
        => /\ initialState \in createStatesForMode(mode)
           /\ logger # Log("error", "Target state not found")
           /\ matched.result # Null
                 => matched.result \in createStatesForMode(mode)

\* The event by which each retrying stage reports success.
successEvent(s) ==
    CASE s = "RECIPE_EXECUTION" -> "SCREENSHOTS_CAPTURED"
      [] s = "QUALITY_AUDIT"    -> "QUALITY_CHECK_PASSED"
      [] s = "DISTRIBUTION"     -> "SYNC_SUCCESSFUL"

\* C25: whenever RecipeExecutionState has returned SCREENSHOTS_CAPTURED,
\* QualityAuditState QUALITY_CHECK_PASSED or DistributionState
\* SYNC_SUCCESSFUL, the retry counter of that stage is 0 right afterwards.
C25_SuccessResetsCounter ==
    \A s \in RetryStages :
        (matched.stage = s /\ matched.event = successEvent(s))
            => matched.count = 0

\* The run is the undisturbed one of mode m: workflowMode is that of the
\* mode, nobody has called stop(), and no enter or exit has raised.
Undisturbed(m) ==
    /\ mode = m
    /\ workflowMode = m
    /\ pc[2] = "idle"
    /\ pc[1] # "rejected"
    /\ logger # Log("error", "Error in state")

\* The machine has stopped itself in the state s.
StoppedItselfIn(s) ==
    /\ currentState = s
    /\ ~isRunning
    /\ pc[1] = "done"
    /\ pc[2] = "idle"

\* C26: a machine built for trigger mode, left undisturbed, eventually
\* reaches TRIGGER_COMPLETE and stops itself with isRunning false, whatever
\* success or failure events its stages return.
C26_TriggerRunEnds ==
    ([]Undisturbed("trigger")) => <>StoppedItselfIn("TRIGGER_COMPLETE")

\* C27: a machine built for schedule mode runs the pipeline at most once:
\* after the first SCHEDULE_REACHED it never enters CHANGE_DETECTION a
\* second time, and a run that has ended by itself has ended in
\* SCHEDULE_COMPLETE with isRunning false.
C27_ScheduleRunsOnce ==
    (mode = "schedule" /\ workflowMode = "schedule" /\ pc[2] = "idle")
        => /\ cycles <= 1
           /\ pc[1] = "done"
                 => currentState = "SCHEDULE_COMPLETE" /\ ~isRunning

\* C28: in a machine built for monitor mode the running flag never becomes
\* false without a stop() from outside: no state of the monitor registry is
\* terminal, and AUDIT_COMPLETE returns CYCLE_COMPLETE, which takes the
\* machine back to MONITORING whatever the shared data hold.
C28_MonitorKeepsRunning ==
    mode = "monitor"
        => /\ (pc[1] # "idle" /\ pc[2] = "idle") => isRunning
           /\ \A s \in createStatesForMode("monitor") :
                 getTransitions(s) # << >>
           /\ matched.stage = "AUDIT_COMPLETE"
                 => /\ matched.event = "CYCLE_COMPLETE"
                    /\ matched.result = "MONITORING"
                    /\ currentState = "MONITORING"

C28_Witness ==
    /\ mode = "monitor"
    /\ cycles = 2
    /\ currentState = "MONITORING"
    /\ matched.stage = "AUDIT_COMPLETE"
    /\ event[1] = Null
    /\ isRunning
    /\ pc[2] = "idle"

\* C29: every EXECUTION_FAILED that RecipeExecutionState returns is
\* delivered: the engine selects a transition for it, to MONITORING, and
\* never drops it.
C29_ExecutionFailedDelivered ==
    (matched.stage = "RECIPE_EXECUTION" /\ matched.event = "EXECUTION_FAILED")
        => /\ matched.result = "MONITORING"
           /\ logger # Log("debug", "No transition found")

\* C30: a QUALITY_CHECK_FAILED of QualityAuditState that is its first
\* failure of the cycle (the budget of one retry is unused) sends the machine
\* to RECIPE_EXECUTION; MONITORING is selected only for a failure that comes
\* after the retry was used.
C30_AuditRetriedFirst ==
    (matched.stage = "QUALITY_AUDIT" /\ matched.event = "QUALITY_CHECK_FAILED")
        => /\ failures["QUALITY_AUDIT"] = 1
                 => matched.result = "RECIPE_EXECUTION"
           /\ matched.result = "MONITORING"
                 => failures["QUALITY_AUDIT"] >= 2

\* C31: a MonitoringState.execute that runs while the scheduler's 'manual'
\* event (a manual trigger or the run-on-start emission) is the last one
\* recorded returns MANUAL_TRIGGER, so the machine leaves for
\* CHANGE_DETECTION without a scheduled tick.
C31_ManualTriggerDelivered ==
    [][(triggerType = "manual" /\ \E c \in Callbacks : runMonitoring(c))
          => event'[1] = "MANUAL_TRIGGER"]_vars

\* C32: once TRIGGER_COMPLETE or SCHEDULE_COMPLETE has been entered and
\* executed, and nobody called stop(), the run is over: the one execute
\* returned null, nothing was raised, and the loop has halted.
C32_TerminalStageEndsRun ==
    (/\ currentState \in {"TRIGGER_COMPLETE", "SCHEDULE_COMPLETE"}
     /\ logger # Log("info", "Transitioning")
     /\ pc[2] = "idle")
        => /\ event[1] = Null
           /\ logger = Log("info", "Terminal state reached")
           /\ pc[1] = "done"
           /\ ~isRunning

\* C33: startScheduledMonitoring on a running scheduler throws 'Scheduler
\* is already running', and triggerManualRun on one that is not running
\* throws 'Scheduler is not running'; either call leaves the flag, the
\* tasks and the intervals as they were and emits nothing.
C33_SchedulerPreconditions ==
    /\ (called.op = "startScheduledMonitoring" /\ called.before.isRunning)
          => /\ called.threw = AlreadyRunningScheduler
             /\ scheduler = called.before
             /\ emitted = called.emitted
    /\ (called.op = "triggerManualRun" /\ ~called.before.isRunning)
          => /\ called.threw = SchedulerNotRunning
             /\ scheduler = called.before
             /\ emitted = called.emitted

\* A start refused on a scheduler that runs an interval and has emitted.
C33_Witness ==
    /\ called.op = "startScheduledMonitoring"
    /\ called.before.isRunning
    /\ called.before.intervals # {}
    /\ called.threw = AlreadyRunningScheduler
    /\ emitted # << >>

\* C39: a startScheduledMonitoring that throws leaves the scheduler not
\* running, with no task and no interval; a running scheduler always has a
\* task or an interval.
C39_FailedStartLeavesStopped ==
    /\ (/\ called.op = "startScheduledMonitoring"
        /\ ~called.before.isRunning
        /\ called.threw # NoThrow)
          => scheduler = NewScheduler
    /\ scheduler.isRunning
          => scheduler.tasks \cup scheduler.intervals # {}

\* C34: at any time at most one run loop is driving the machine, whatever
\* start() and stop() calls were made.
C34_OneRunLoop ==
    Cardinality({t \in Callers : InLoop(t)}) <= 1

\* C35: once stop() has found the machine running and cleared the flag,
\* and while nobody has started it again, no step changes currentState or
\* calls enter on any state.
C35_NoTransitionAfterStop ==
    [][(/\ \E k \in Callers : StopExited(k)
        /\ ~isRunning
        /\ ~isRunning')
          => /\ currentState' = currentState
             /\ life'.occ = life.occ
             /\ life'.enterCalls = life.enterCalls]_vars

\* C36: the running flag is set only while a start() is entering the
\* initial state or its run loop is active; once every start() has returned
\* or failed the machine does not report Running.
C36_RunningMeansLoop ==
    isRunning => \E t \in Callers : pc[t] = "startEnter" \/ InLoop(t)

\* C37: the retry counter of each retrying stage stays between 0 and the
\* stage's maxRetries (2, 1 and 2), whatever its executes met.
C37_RetryCountBounded ==
    \A s \in RetryStages :
        retryCount[s] >= 0 /\ retryCount[s] <= maxRetries(s)

\* Every counter stands at its maximum.
C37_Witness ==
    \A s \in RetryStages : retryCount[s] = maxRetries(s)

\* C38: when the machine has moved to MONITORING on the failure event of a
\* stage that gave up, the retry counters of all three stages are 0.
C38_GiveUpRestoresBudget ==
    (/\ matched.stage \in RetryStages
     /\ matched.event = failureEvent(matched.stage)
     /\ matched.result = "MONITORING"
     /\ currentState = "MONITORING")
        => \A s \in RetryStages : retryCount[s] = 0

\* C40: while RECIPE_EXECUTION, QUALITY_AUDIT or DISTRIBUTION is current,
\* isInitialRun is set only if the CHANGE_DETECTION execute of the same
\* cycle found no baselines.
C40_InitialRunCycleScoped ==
    (currentState \in {"RECIPE_EXECUTION", "QUALITY_AUDIT", "DISTRIBUTION"}
        /\ data)
        => initialCycle

====
